---- MODULE Spec2Model ----
(***************************************************************************)
(* Push-notification dispatch layer (Django app "notifications").         *)
(*                                                                         *)
(*   firebase_service.py  FirebaseService: memoized gateway client and the *)
(*                        single / bulk send forms                         *)
(*   signals.py           post_save receiver and the automatic pipeline    *)
(*   admin.py             the operator's "send selected" action            *)
(*   views.py             device registration API                          *)
(*   models.py            DeviceToken, PushNotification, NotificationLog   *)
(*                                                                         *)
(* Spec        : the dispatch pipeline over the database, request threads  *)
(*               interleaved at the granularity of database statements.    *)
(* SpecFb      : the gateway adapter and the test-send view called from    *)
(*               concurrent threads, interleaved inside                    *)
(*               initialize_firebase.                                      *)
(* SpecTx      : the add view's transaction, committed or rolled back,     *)
(*               and the automatic pipeline.                               *)
(* SpecSel     : one operator action over a selection of notifications.    *)
(* SpecAuto    : the automatic pipeline with a database that fails.        *)
(* SpecResolve : audience resolution over devices of every platform and    *)
(*               owner.                                                    *)
(* SpecApi     : the registration API and its responses.                   *)
(* SpecBatch   : audiences of several batches.                             *)
(* SpecPair    : two automatic dispatches on threads of one process,       *)
(*               interleaved inside initialize_firebase.                   *)
(* SpecManual  : the operator's action with a database that fails.         *)
(* SpecFrame   : both pipelines next to the admin site's delete of log     *)
(*               rows.                                                     *)
(* SpecAutoFair: SpecAuto with the callback's steps weakly fair.           *)
(***************************************************************************)
EXTENDS Integers, Sequences, FiniteSets, TLC

\* ------------------------------------------------------------------ bounds
\* batch_size of the pipelines (500 in the source), scaled so that an
\* audience of a few endpoints spans several batches.
BatchSize == 2
\* device tokens the registration API is called with
NumTokens == 3
\* PushNotification rows created
MaxReq == 1
\* PushNotification rows created when an operator's action works through a
\* selection of several
MaxSel == 3
\* "send selected notifications" actions run by operators
MaxManual == 1
\* calls of the registration / unregistration API
MaxApiCalls == 3
\* admin change-form saves of an existing notification
MaxEdits == 1
\* threads calling FirebaseService, and the calls they make in total
NumThreads == 2
MaxCalls == 3

Tokens == 1..NumTokens
DeviceTypes == {"android", "ios"}
NoUser == 0
Users == {1}
\* every platform a DeviceToken can have, and the rows of auth.User
AllDeviceTypes == {"android", "ios", "web"}
AllUsers == {1, 2}
\* inputs of the pipeline specification: devices register without user_id,
\* notifications are broadcasts filtered by platform
RegisterUsers == {NoUser}
CreateSendToAll == {TRUE}
CreateTargetUsers == {{}}
TargetDeviceTypes == {"all", "ios"}
\* the change form is saved with "Send immediately" ticked
EditAutoSend == {TRUE}
Threads == 1..NumThreads

\* Python's None in a string-valued field
None == "None"

\* rest_framework.status, as views.py uses it
HTTP_200_OK == 200
HTTP_201_CREATED == 201
HTTP_400_BAD_REQUEST == 400
HTTP_404_NOT_FOUND == 404
HTTP_500_INTERNAL_SERVER_ERROR == 500
HTTP_503_SERVICE_UNAVAILABLE == 503

\* ---------------------------------------------------------------- state
VARIABLES
    \* FirebaseService class attributes and the process environment
    firebase,        \* [app: _app is not None, initialized: _initialized,
                     \*  sdk_app: firebase_admin holds a default app]
    cred,            \* what FIREBASE_SERVICE_ACCOUNT_KEY points at
    init_attempts,   \* executions of the body of initialize_firebase
    threads,         \* SpecFb: each thread's position and last result
    ncalls,          \* SpecFb: adapter calls made so far
    \* database tables (committed rows)
    devices,         \* DeviceToken rows, in id order
    notifications,   \* PushNotification rows, index = id
    logs,            \* NotificationLog rows, in id order
    rowlock,         \* per notification: the transaction holding its row
    \* request threads
    scheduled,       \* per notification: on_commit callbacks registered
    auto,            \* per notification: the on_commit callback's frame
    manual,          \* per operator action: the admin action's frame
    finished,        \* summaries of the dispatch passes that returned
    api_calls,       \* registration API calls made so far
    edits,           \* admin change-form saves made so far
    \* the surroundings of the request threads
    creating,        \* the admin add view's open transaction
    db_ok,           \* the database answers (FALSE: statements raise)
    http_response    \* the HTTP response the API returned last

fbvars == <<firebase, cred, init_attempts, threads, ncalls>>
dbvars == <<devices, notifications, logs, rowlock>>
runvars == <<scheduled, auto, manual, finished, api_calls, edits>>
envvars == <<creating, db_ok, http_response>>
vars == <<firebase, cred, init_attempts, threads, ncalls,
          devices, notifications, logs, rowlock,
          scheduled, auto, manual, finished, api_calls, edits,
          creating, db_ok, http_response>>

\* ------------------------------------------------- firebase_service.py
NOT_CONFIGURED ==
    "Firebase is not properly configured. Please check your service account key."
\* ValueError of firebase_admin.get_app() when no default app was initialized
NO_DEFAULT_APP == "The default Firebase app does not exist."
\* an exception of the transport library while the payload is built
PAYLOAD_ERROR == "payload error"
GatewayAnswers == {"ok", "invalid token"}
Credentials == {"valid", "missing", "unreadable"}

\* line 21: the unsynchronized check that guards the initialization
InitNeeded(f) == ~f.app /\ ~f.initialized

\* lines 22-39: the body; [fb: the class attributes after it, raised]
InitAttempt(f, c) ==
    IF c = "valid"
    THEN IF f.sdk_app
         \* firebase_admin.initialize_app: the default app already exists
         THEN [fb |-> [f EXCEPT !.initialized = TRUE], raised |-> TRUE]
         ELSE [fb |-> [app |-> TRUE, initialized |-> TRUE, sdk_app |-> TRUE],
               raised |-> FALSE]
    ELSE IF c = "missing"
    THEN [fb |-> [f EXCEPT !.initialized = TRUE], raised |-> FALSE]
    \* credentials.Certificate raises; line 38 memoizes, line 39 re-raises
    ELSE [fb |-> [f EXCEPT !.initialized = TRUE], raised |-> TRUE]

\* initialize_firebase run without interruption
initialize_firebase(f, c) ==
    IF InitNeeded(f)
    THEN [fb |-> InitAttempt(f, c).fb, raised |-> InitAttempt(f, c).raised,
          attempts |-> 1]
    ELSE [fb |-> f, raised |-> FALSE, attempts |-> 0]

\* line 45, after initialize_firebase returned
is_firebase_available(f) == f.app

\* firebase_admin.messaging.send for one message: the gateway's answer g,
\* or ValueError when the SDK holds no default app
messaging_send(f, g) ==
    IF ~f.sdk_app THEN [raised |-> TRUE, error |-> NO_DEFAULT_APP]
    ELSE IF g = "ok" THEN [raised |-> FALSE, error |-> None]
    ELSE [raised |-> TRUE, error |-> g]

\* lines 69-108, after is_firebase_available returned avail
\* transport: calls of messaging.send made
send_to_token_body(f, avail, token, gw) ==
    IF ~avail
    THEN [success |-> FALSE, error |-> NOT_CONFIGURED, transport |-> 0]
    ELSE IF gw.raises
    THEN [success |-> FALSE, error |-> PAYLOAD_ERROR, transport |-> 0]
    ELSE [success |-> ~messaging_send(f, gw.answers[1]).raised,
          error |-> messaging_send(f, gw.answers[1]).error, transport |-> 1]

\* lines 154-181: one response per token, in input order
bulk_response(f, token, g) ==
    [token |-> token, success |-> ~messaging_send(f, g).raised,
     error |-> messaging_send(f, g).error]

\* lines 134-205, after initialize_firebase returned.
\* gw: [raises: building messaging.Notification raises, answers: the
\* gateway's answer for each position]
\* success_count, failure_count: the counters of lines 151-152, incremented
\* at lines 166 and 181, or set at lines 200-201
bulk_body(f, tokens, gw) ==
    IF tokens = <<>>
    THEN [responses |-> <<>>, transport |-> 0,
          success_count |-> 0, failure_count |-> 0]
    ELSE IF gw.raises
    THEN [responses |-> [k \in 1..Len(tokens) |->
                           [token |-> tokens[k], success |-> FALSE,
                            error |-> PAYLOAD_ERROR]],
          transport |-> 0,
          success_count |-> 0, failure_count |-> Len(tokens)]
    ELSE [responses |-> [k \in 1..Len(tokens) |->
                           bulk_response(f, tokens[k], gw.answers[k])],
          transport |-> Len(tokens),
          success_count |-> Cardinality({k \in 1..Len(tokens) :
              bulk_response(f, tokens[k], gw.answers[k]).success}),
          failure_count |-> Cardinality({k \in 1..Len(tokens) :
              ~bulk_response(f, tokens[k], gw.answers[k]).success})]

GatewayBehaviours(n) ==
    {[raises |-> TRUE, answers |-> [k \in 1..n |-> "ok"]]} \cup
    {[raises |-> FALSE, answers |-> a] : a \in [1..n -> GatewayAnswers]}

\* send_notification_to_multiple_tokens run without interruption
send_notification_to_multiple_tokens(f, c, tokens, gw) ==
    LET ini == initialize_firebase(f, c) IN
    IF ini.raised
    THEN [fb |-> ini.fb, attempts |-> ini.attempts, raised |-> TRUE,
          responses |-> <<>>, transport |-> 0]
    ELSE [fb |-> ini.fb, attempts |-> ini.attempts, raised |-> FALSE,
          responses |-> bulk_body(ini.fb, tokens, gw).responses,
          transport |-> bulk_body(ini.fb, tokens, gw).transport]

\* ------------------------------------- adapter calls from threads (SpecFb)
\* the three public methods, and the view send_test_notification (views.py
\* 124-178), which calls two of them
FbOps == {"is_firebase_available", "send_notification_to_token",
          "send_notification_to_multiple_tokens", "send_test_notification"}
FbTokenLists == {<<1>>, <<1, 2>>}
\* http: the status of the view's response (0: the call was not a view)
NoRet == [op |-> None, raised |-> FALSE, available |-> FALSE,
          responses |-> <<>>, transport |-> 0, http |-> 0]

\* send_test_notification, lines 143-168, once the initialize_firebase inside
\* is_firebase_available has returned without raising
send_test_notification(f, token, gw) ==
    IF ~is_firebase_available(f)
    THEN [success |-> FALSE, error |-> NOT_CONFIGURED, transport |-> 0,
          http |-> HTTP_503_SERVICE_UNAVAILABLE]
    ELSE LET r == send_to_token_body(f, is_firebase_available(f), token, gw) IN
         [success |-> r.success, error |-> r.error, transport |-> r.transport,
          http |-> IF r.success THEN HTTP_200_OK
                   ELSE HTTP_500_INTERNAL_SERVER_ERROR]
\* fb, gw: the class attributes and the gateway behaviour the body of the
\* call ran with, kept for the properties
NoGateway == [raises |-> FALSE, answers |-> <<>>]
IdleThread == [pc |-> "idle", op |-> None, tokens |-> <<>>, ret |-> NoRet,
               fb |-> [app |-> FALSE, initialized |-> FALSE,
                       sdk_app |-> FALSE],
               gw |-> NoGateway]

\* what the called method returns once initialize_firebase has returned
\* without raising, the class attributes being f
fb_return(op, tokens, f, gw) ==
    IF op = "is_firebase_available"
    THEN [op |-> op, raised |-> FALSE, available |-> is_firebase_available(f),
          responses |-> <<>>, transport |-> 0, http |-> 0]
    ELSE IF op = "send_notification_to_token"
    THEN LET r == send_to_token_body(f, is_firebase_available(f),
                                     tokens[1], gw) IN
         [op |-> op, raised |-> FALSE, available |-> is_firebase_available(f),
          responses |-> <<[token |-> tokens[1], success |-> r.success,
                           error |-> r.error]>>,
          transport |-> r.transport, http |-> 0]
    ELSE IF op = "send_test_notification"
    THEN LET r == send_test_notification(f, tokens[1], gw) IN
         [op |-> op, raised |-> FALSE, available |-> is_firebase_available(f),
          responses |-> <<[token |-> tokens[1], success |-> r.success,
                           error |-> r.error]>>,
          transport |-> r.transport, http |-> r.http]
    ELSE [op |-> op, raised |-> FALSE, available |-> is_firebase_available(f),
          responses |-> bulk_body(f, tokens, gw).responses,
          transport |-> bulk_body(f, tokens, gw).transport, http |-> 0]

\* initialize_firebase raised: none of the three methods catches it
\* (lines 44, 69 and 132 are outside every try block); the view catches it
\* at line 170 of views.py
fb_raise(op) ==
    IF op = "send_test_notification"
    THEN [op |-> op, raised |-> FALSE, available |-> FALSE,
          responses |-> <<>>, transport |-> 0,
          http |-> HTTP_500_INTERNAL_SERVER_ERROR]
    ELSE [op |-> op, raised |-> TRUE, available |-> FALSE,
          responses |-> <<>>, transport |-> 0, http |-> 0]

\* a thread enters a method and evaluates line 21
FbCall(t, op, tokens, gw) ==
    /\ threads[t].pc = "idle"
    /\ ncalls < MaxCalls
    /\ ncalls' = ncalls + 1
    /\ IF InitNeeded(firebase)
       THEN threads' = [threads EXCEPT ![t] =
                [IdleThread EXCEPT !.pc = "init", !.op = op,
                                   !.tokens = tokens]]
       ELSE threads' = [threads EXCEPT ![t] =
                [pc |-> "idle", op |-> op, tokens |-> tokens,
                 ret |-> fb_return(op, tokens, firebase, gw),
                 fb |-> firebase, gw |-> gw]]
    /\ UNCHANGED <<envvars, firebase, cred, init_attempts, dbvars, runvars>>

\* the thread, past line 21, runs lines 22-39 and then the rest of the method
FbInit(t) ==
    /\ threads[t].pc = "init"
    /\ \E gw \in GatewayBehaviours(Len(threads[t].tokens)) :
       LET r == InitAttempt(firebase, cred) IN
       /\ firebase' = r.fb
       /\ init_attempts' = init_attempts + 1
       /\ threads' = [threads EXCEPT ![t] =
               [@ EXCEPT !.pc = "idle",
                         !.fb = r.fb,
                         !.gw = gw,
                         !.ret = IF r.raised THEN fb_raise(threads[t].op)
                                 ELSE fb_return(threads[t].op,
                                                threads[t].tokens, r.fb, gw)]]
    /\ UNCHANGED <<envvars, cred, ncalls, dbvars, runvars>>

NextFb ==
    \/ \E t \in Threads, op \in FbOps, tokens \in FbTokenLists :
         \E gw \in GatewayBehaviours(Len(tokens)) : FbCall(t, op, tokens, gw)
    \/ \E t \in Threads : FbInit(t)

\* ------------------------------------------------------------ models.py
\* a PushNotification as admin creates it: status and counters are read-only
\* in the form and take their defaults (lines 54-63)
NewNotification(id, auto_send, send_to_all, target_device_types, target_users) ==
    [id |-> id, status |-> "draft", total_recipients |-> 0,
     successful_sends |-> 0, failed_sends |-> 0, sent_at |-> FALSE,
     auto_send |-> auto_send, send_to_all |-> send_to_all,
     target_device_types |-> target_device_types,
     target_users |-> target_users]

\* a save writing the status column only
save_status_only(table, n) == [table EXCEPT ![n.id].status = n.status]

\* Model.save() of an existing row: every column is written
save(table, n) == [table EXCEPT ![n.id] = n]

\* NotificationLog.objects.create (signals.py 70-75, admin.py 135-140)
NotificationLog(n, device, resp) ==
    [notification |-> n.id, device_token |-> device.id,
     status |-> IF resp.success THEN "success" ELSE "failed",
     error_message |-> IF ~resp.success THEN resp.error ELSE None]

\* ------------------------------------------------------------- views.py
\* update_or_create adding a row whatever the table holds
update_or_create_always_new(table, token, device_type, user) ==
    Append(table, [id |-> Len(table) + 1, token |-> token,
                   device_type |-> device_type, user |-> user,
                   is_active |-> TRUE])

\* update_or_create with defaults that leave is_active out
update_or_create_keeps_active(table, token, device_type, user) ==
    IF \E k \in 1..Len(table) : table[k].token = token
    THEN LET k == CHOOSE j \in 1..Len(table) : table[j].token = token IN
         [table EXCEPT ![k] = [@ EXCEPT !.user = user,
                                        !.device_type = device_type]]
    ELSE Append(table, [id |-> Len(table) + 1, token |-> token,
                        device_type |-> device_type, user |-> user,
                        is_active |-> TRUE])

\* DeviceToken.objects.update_or_create(token=..., defaults=...) (lines 50-57)
update_or_create(table, token, device_type, user) ==
    IF \E k \in 1..Len(table) : table[k].token = token
    THEN LET k == CHOOSE j \in 1..Len(table) : table[j].token = token IN
         [table EXCEPT ![k] = [@ EXCEPT !.user = user,
                                        !.device_type = device_type,
                                        !.is_active = TRUE]]
    ELSE Append(table, [id |-> Len(table) + 1, token |-> token,
                        device_type |-> device_type, user |-> user,
                        is_active |-> TRUE])

\* register_device_token (lines 27-63). Tokens are opaque strings issued by
\* the gateway: the k-th token the API ever sees is named k.
Register(token, device_type, user) ==
    /\ api_calls < MaxApiCalls
    /\ token <= Len(devices) + 1
    /\ api_calls' = api_calls + 1
    /\ devices' = update_or_create(devices, token, device_type, user)
    /\ UNCHANGED <<envvars, fbvars, notifications, logs, rowlock,
                   scheduled, auto, manual, finished, edits>>

\* unregister_device_token (lines 84-99) called with a token; an unknown
\* token changes nothing
Unregister(token) ==
    /\ api_calls < MaxApiCalls
    /\ token <= Len(devices) + 1
    /\ api_calls' = api_calls + 1
    /\ IF \E k \in 1..Len(devices) : devices[k].token = token
       THEN LET k == CHOOSE j \in 1..Len(devices) : devices[j].token = token IN
            devices' = [devices EXCEPT ![k].is_active = FALSE]
       ELSE devices' = devices
    /\ UNCHANGED <<envvars, fbvars, notifications, logs, rowlock,
                   scheduled, auto, manual, finished, edits>>

\* ----------------------------------------------------------- signals.py
\* the receiver without its test of created
auto_send_notification_any_save(instance, created) ==
    instance.status = "draft" /\ instance.auto_send

\* auto_send_notification, line 18: whether the receiver registers
\* send_notification_async with transaction.on_commit
auto_send_notification(instance, created) ==
    created /\ instance.status = "draft" /\ instance.auto_send

\* on_commit callbacks the post_save signal of one save registers
post_save(instance, created) ==
    IF auto_send_notification(instance, created) THEN 1 ELSE 0

\* the resolver starting from every row instead of the active ones
get_target_tokens_inactive_too(table, notification) ==
    SelectSeq(table, LAMBDA d :
        /\ (notification.target_device_types # "all"
              => d.device_type = notification.target_device_types)
        /\ ((~notification.send_to_all /\ notification.target_users # {})
              => d.user \in notification.target_users))

\* get_target_tokens (lines 109-121): list(queryset), rows in id order
get_target_tokens(table, notification) ==
    SelectSeq(table, LAMBDA d :
        /\ d.is_active
        /\ (notification.target_device_types # "all"
              => d.device_type = notification.target_device_types)
        /\ ((~notification.send_to_all /\ notification.target_users # {})
              => d.user \in notification.target_users))

\* range(0, len(target_tokens), batch_size) and the slice [i:i + batch_size]
Min(a, b) == IF a < b THEN a ELSE b

\* every turn of the loop taking the first batch_size tokens
batch_slice_from_start(target_tokens, i) ==
    SubSeq(target_tokens, 1, Min(BatchSize, Len(target_tokens)))

batch_slice(target_tokens, i) ==
    SubSeq(target_tokens, i + 1, Min(i + BatchSize, Len(target_tokens)))
TokensOf(batch) == [k \in 1..Len(batch) |-> batch[k].token]
IdsOf(batch) == [k \in 1..Len(batch) |-> batch[k].id]
CountSuccess(responses) ==
    Cardinality({k \in 1..Len(responses) : responses[k].success})

\* the log loop stopping one response short
log_responses_short(n, batch, responses) ==
    [k \in 1..(Len(responses) - 1) |->
        NotificationLog(n, batch[k], responses[k])]

\* the log loop pairing the responses with the batch read backwards
log_responses_crossed(n, batch, responses) ==
    [k \in 1..Len(responses) |->
        NotificationLog(n, batch[Len(batch) + 1 - k], responses[k])]

\* lines 67-80: one NotificationLog per response, response idx paired with
\* batch_tokens[idx]
log_responses(n, batch, responses) ==
    [k \in 1..Len(responses) |-> NotificationLog(n, batch[k], responses[k])]

\* the final save with the status left as it is
finalize_keeps_status(n, success_count, failure_count) ==
    [n EXCEPT !.successful_sends = success_count,
              !.failed_sends = failure_count,
              !.sent_at = TRUE]

\* lines 83-90
finalize(n, success_count, failure_count) ==
    [n EXCEPT !.successful_sends = success_count,
              !.failed_sends = failure_count,
              !.sent_at = TRUE,
              !.status = IF success_count > 0 THEN "sent" ELSE "failed"]

\* the summary of a pass that returned, kept for the properties:
\* start_status: the committed status when the pass began; audience: the
\* resolved endpoints; sends: the endpoints messaging.send was called for;
\* batches: the endpoints of each bulk call;
\* results: the results the bulk calls returned, in order;
\* outcomes: the NotificationLog rows the pass created; end: how it returned;
\* row: the committed PushNotification row when it returned
Summary(kind, by, frame, end, persisted) ==
    [kind |-> kind, by |-> by, notification |-> frame.notification.id,
     start_status |-> frame.start_status,
     audience |-> IdsOf(frame.target_tokens),
     sends |-> frame.sends, batches |-> frame.batches,
     results |-> frame.results,
     outcomes |-> frame.outcomes, end |-> end, row |-> persisted]

Frame(n, start_status) ==
    [pc |-> "resolve", notification |-> n, target_tokens |-> <<>>, i |-> 0,
     success_count |-> 0, failure_count |-> 0, sends |-> <<>>,
     batches |-> <<>>, results |-> <<>>, outcomes |-> <<>>,
     start_status |-> start_status,
     hooks |-> 0]

\* admin creates a notification; the enclosing transaction commits
\* (admin.py 58-61, signals.py 13-20)
create(auto_send, send_to_all, target_device_types, target_users) ==
    /\ LET n == NewNotification(Len(notifications) + 1, auto_send, send_to_all,
                                target_device_types, target_users) IN
       /\ notifications' = Append(notifications, n)
       /\ scheduled' = [scheduled EXCEPT ![n.id] = @ + post_save(n, TRUE)]
       /\ auto' = [auto EXCEPT ![n.id] =
                     IF post_save(n, TRUE) > 0 THEN [pc |-> "scheduled"] ELSE @]
    /\ UNCHANGED <<envvars, fbvars, devices, logs, rowlock, manual, finished,
                   api_calls, edits>>

CreateNotification(auto_send, send_to_all, target_device_types, target_users) ==
    /\ Len(notifications) < MaxReq
    /\ create(auto_send, send_to_all, target_device_types, target_users)

\* admin change form of an existing notification: the editable field
\* auto_send is rewritten and the row saved (created = False)
EditNotification(id, auto_send) ==
    /\ id \in 1..Len(notifications)
    /\ edits < MaxEdits
    /\ rowlock[id] = 0
    /\ edits' = edits + 1
    /\ LET n == [notifications[id] EXCEPT !.auto_send = auto_send] IN
       /\ notifications' = save(notifications, n)
       /\ scheduled' = [scheduled EXCEPT ![id] = @ + post_save(n, FALSE)]
       /\ auto' = [auto EXCEPT ![id] =
                     IF post_save(n, FALSE) > 0 /\ @.pc \in {"none", "done"}
                     THEN [pc |-> "scheduled"] ELSE @]
    /\ UNCHANGED <<envvars, fbvars, devices, logs, rowlock, manual, finished, api_calls>>

\* the handler leaving the row as it reads it
handler_row_as_read(row) == row

\* lines 102-103: the handler reads the row again and sets it to failed
handler_row(row) == [row EXCEPT !.status = "failed"]

\* send_notification_async, lines 28-32; when the row does not exist, get
\* raises DoesNotExist at line 28 and again at line 102 (lines 99-106)
AutoStart(id) ==
    /\ auto[id].pc = "scheduled"
    /\ IF id \in 1..Len(notifications)
       THEN /\ db_ok
            /\ rowlock[id] = 0
            /\ LET n == [notifications[id] EXCEPT !.status = "sending"] IN
               /\ notifications' = save(notifications, n)
               /\ scheduled' = [scheduled EXCEPT
                                  ![id] = @ + post_save(n, FALSE)]
               /\ auto' = [auto EXCEPT
                             ![id] = Frame(n, notifications[id].status)]
       ELSE /\ auto' = [auto EXCEPT ![id] = [pc |-> "done"]]
            /\ UNCHANGED <<notifications, scheduled>>
    /\ UNCHANGED <<envvars, fbvars, devices, logs, rowlock, manual, finished,
                   api_calls, edits>>

\* send_notification_async, lines 35-44
AutoResolve(id) ==
    /\ auto[id].pc = "resolve"
    /\ db_ok
    /\ rowlock[id] = 0
    /\ LET f == auto[id]
           target_tokens == get_target_tokens(devices, f.notification) IN
       IF target_tokens = <<>>
       THEN LET n == [f.notification EXCEPT !.status = "failed"] IN
            /\ notifications' = save(notifications, n)
            /\ scheduled' = [scheduled EXCEPT ![id] = @ + post_save(n, FALSE)]
            /\ auto' = [auto EXCEPT ![id] = [pc |-> "done"]]
            /\ finished' = finished \cup
                 {Summary("auto", 0, [f EXCEPT !.notification = n],
                          "no_tokens", n)}
       ELSE LET n == [f.notification EXCEPT
                        !.total_recipients = Len(target_tokens)] IN
            /\ notifications' = save(notifications, n)
            /\ scheduled' = [scheduled EXCEPT ![id] = @ + post_save(n, FALSE)]
            /\ auto' = [auto EXCEPT ![id] =
                          [f EXCEPT !.pc = "batch", !.notification = n,
                                    !.target_tokens = target_tokens]]
            /\ UNCHANGED finished
    /\ UNCHANGED <<envvars, fbvars, devices, logs, rowlock, manual, api_calls, edits>>

\* send_notification_async, one turn of the loop of lines 55-80; an exception
\* of the adapter goes to the handler of lines 99-106
AutoBatch(id) ==
    /\ auto[id].pc = "batch"
    /\ auto[id].i < Len(auto[id].target_tokens)
    /\ db_ok
    /\ LET f == auto[id]
           batch_tokens == batch_slice(f.target_tokens, f.i) IN
       \E gw \in GatewayBehaviours(Len(batch_tokens)) :
         LET response == send_notification_to_multiple_tokens(
                             firebase, cred, TokensOf(batch_tokens), gw) IN
         /\ firebase' = response.fb
         /\ init_attempts' = init_attempts + response.attempts
         /\ IF response.raised
            THEN /\ rowlock[id] = 0
                 /\ LET n == handler_row(notifications[id]) IN
                    /\ notifications' = save(notifications, n)
                    /\ scheduled' = [scheduled EXCEPT
                                       ![id] = @ + post_save(n, FALSE)]
                    /\ finished' = finished \cup
                         {Summary("auto", 0,
                                  [f EXCEPT !.batches =
                                      Append(@, IdsOf(batch_tokens))],
                                  "raised", n)}
                 /\ auto' = [auto EXCEPT ![id] = [pc |-> "done"]]
                 /\ UNCHANGED logs
            ELSE LET created == log_responses(f.notification, batch_tokens,
                                              response.responses) IN
                 /\ logs' = logs \o created
                 /\ auto' = [auto EXCEPT ![id] =
                      [f EXCEPT
                         !.i = @ + BatchSize,
                         !.success_count =
                             @ + CountSuccess(response.responses),
                         !.failure_count =
                             @ + Len(response.responses)
                               - CountSuccess(response.responses),
                         !.sends = @ \o SubSeq(IdsOf(batch_tokens), 1,
                                               response.transport),
                         !.batches = Append(@, IdsOf(batch_tokens)),
                         !.results = @ \o response.responses,
                         !.outcomes = @ \o created]]
                 /\ UNCHANGED <<notifications, scheduled, finished>>
    /\ UNCHANGED <<envvars, cred, threads, ncalls, devices, rowlock, manual,
                   api_calls, edits>>

\* send_notification_async, lines 83-97
AutoFinish(id) ==
    /\ auto[id].pc = "batch"
    /\ auto[id].i >= Len(auto[id].target_tokens)
    /\ db_ok
    /\ rowlock[id] = 0
    /\ LET f == auto[id]
           n == finalize(f.notification, f.success_count, f.failure_count) IN
       /\ notifications' = save(notifications, n)
       /\ scheduled' = [scheduled EXCEPT ![id] = @ + post_save(n, FALSE)]
       /\ finished' = finished \cup {Summary("auto", 0, f, "completed", n)}
       /\ auto' = [auto EXCEPT ![id] = [pc |-> "done"]]
    /\ UNCHANGED <<envvars, fbvars, devices, logs, rowlock, manual, api_calls, edits>>

\* ------------------------------------------------------------- admin.py
NO_TOKENS == "No valid device tokens found for targeting criteria"
INIT_ERROR == "Failed to initialize Firebase"

\* the resolver applying the user restriction whenever send_to_all is false
admin_get_target_tokens_strict(table, notification) ==
    SelectSeq(table, LAMBDA d :
        /\ d.is_active
        /\ (notification.target_device_types # "all"
              => d.device_type = notification.target_device_types)
        /\ (~notification.send_to_all
              => d.user \in notification.target_users))

\* _get_target_tokens (lines 165-177)
admin_get_target_tokens(table, notification) ==
    SelectSeq(table, LAMBDA d :
        /\ d.is_active
        /\ (notification.target_device_types # "all"
              => d.device_type = notification.target_device_types)
        /\ ((~notification.send_to_all /\ notification.target_users # {})
              => d.user \in notification.target_users))

\* Meta.ordering = ['-created_at'] (models.py 75): newest first
RECURSIVE Descending(_)
Descending(S) ==
    IF S = {} THEN <<>>
    ELSE LET m == CHOOSE x \in S : \A y \in S : y <= x IN
         <<m>> \o Descending(S \ {m})

\* queryset.filter(status='draft'), evaluated once when the loop starts
filter_draft(table, queryset) ==
    LET ids == Descending({r \in queryset : table[r].status = "draft"}) IN
    [k \in 1..Len(ids) |-> table[ids[k]]]

NoFrame == [pc |-> "none"]

\* send_notifications, lines 65-68: the operator's selection is read
ManualSelect(m, queryset) ==
    /\ manual[m].pc = "idle"
    /\ \A o \in 1..(m - 1) : manual[o].pc # "idle"
    /\ queryset # {}
    /\ queryset \subseteq 1..Len(notifications)
    /\ manual' = [manual EXCEPT ![m] =
            [pc |-> "loop", queryset |-> queryset,
             selection |-> filter_draft(notifications, queryset),
             k |-> 1, sent_count |-> 0, error_count |-> 0, messages |-> <<>>,
             f |-> NoFrame]]
    /\ UNCHANGED <<envvars, fbvars, dbvars, scheduled, auto, finished, api_calls, edits>>

\* lines 70-71 and 97-98: transaction.atomic() is entered and the first save
\* takes the row
ManualEnter(m) ==
    /\ manual[m].pc = "loop"
    /\ manual[m].k <= Len(manual[m].selection)
    /\ LET notification == manual[m].selection[manual[m].k]
           n == [notification EXCEPT !.status = "sending"] IN
       /\ rowlock[n.id] = 0
       /\ rowlock' = [rowlock EXCEPT ![n.id] = m]
       /\ manual' = [manual EXCEPT ![m].pc = "resolve",
                                   ![m].f = [Frame(n, notifications[n.id].status)
                                               EXCEPT !.hooks = post_save(n, FALSE)]]
    /\ UNCHANGED <<envvars, fbvars, devices, notifications, logs, scheduled, auto,
                   finished, api_calls, edits>>

\* the rollback of the atomic block with the writes of the block kept
manual_rollback_keeps_writes(m, f, text, end) ==
    /\ rowlock' = [rowlock EXCEPT ![f.notification.id] = 0]
    /\ manual' = [manual EXCEPT
            ![m].pc = "loop", ![m].k = @ + 1, ![m].f = NoFrame,
            ![m].error_count = @ + 1,
            ![m].messages = Append(@, [level |-> "error",
                                       about |-> f.notification.id,
                                       text |-> text])]
    /\ notifications' = save(notifications, f.notification)
    /\ logs' = logs \o f.outcomes
    /\ finished' = finished \cup
         {Summary("manual", m, f, end, f.notification)}
    /\ UNCHANGED scheduled

\* the exception ending the whole action
manual_rollback_abort(m, f, text, end) ==
    /\ rowlock' = [rowlock EXCEPT ![f.notification.id] = 0]
    /\ manual' = [manual EXCEPT
            ![m].pc = "done", ![m].f = NoFrame,
            ![m].error_count = @ + 1,
            ![m].messages = Append(@, [level |-> "error",
                                       about |-> f.notification.id,
                                       text |-> text])]
    /\ finished' = finished \cup
         {Summary("manual", m, f, end, notifications[f.notification.id])}
    /\ UNCHANGED <<notifications, logs, scheduled>>

\* the exception leaves the atomic block: the transaction is rolled back and
\* lines 73-78 count and report the error
manual_rollback(m, f, text, end) ==
    /\ rowlock' = [rowlock EXCEPT ![f.notification.id] = 0]
    /\ manual' = [manual EXCEPT
            ![m].pc = "loop", ![m].k = @ + 1, ![m].f = NoFrame,
            ![m].error_count = @ + 1,
            ![m].messages = Append(@, [level |-> "error",
                                       about |-> f.notification.id,
                                       text |-> text])]
    /\ finished' = finished \cup
         {Summary("manual", m, f, end, notifications[f.notification.id])}
    /\ UNCHANGED <<notifications, logs, scheduled>>

\* _send_single_notification, lines 101-109
ManualResolve(m) ==
    /\ manual[m].pc = "resolve"
    /\ LET f == manual[m].f
           target_tokens == admin_get_target_tokens(devices, f.notification) IN
       IF target_tokens = <<>>
       THEN manual_rollback(m, [f EXCEPT !.notification.status = "failed"],
                            NO_TOKENS, "no_tokens")
       ELSE LET n == [f.notification EXCEPT
                        !.total_recipients = Len(target_tokens)] IN
            /\ manual' = [manual EXCEPT
                    ![m].pc = "batch",
                    ![m].f = [f EXCEPT !.pc = "batch", !.notification = n,
                                       !.target_tokens = target_tokens,
                                       !.hooks = @ + post_save(n, FALSE)]]
            /\ UNCHANGED <<notifications, logs, rowlock, scheduled, finished>>
    /\ UNCHANGED <<envvars, fbvars, devices, auto, api_calls, edits>>

\* _send_single_notification, one turn of the loop of lines 120-145
ManualBatch(m) ==
    /\ manual[m].pc = "batch"
    /\ manual[m].f.i < Len(manual[m].f.target_tokens)
    /\ LET f == manual[m].f
           batch_tokens == batch_slice(f.target_tokens, f.i) IN
       \E gw \in GatewayBehaviours(Len(batch_tokens)) :
         LET response == send_notification_to_multiple_tokens(
                             firebase, cred, TokensOf(batch_tokens), gw) IN
         /\ firebase' = response.fb
         /\ init_attempts' = init_attempts + response.attempts
         /\ IF response.raised
            THEN manual_rollback(m, [f EXCEPT !.batches =
                                        Append(@, IdsOf(batch_tokens))],
                                 INIT_ERROR, "raised")
            ELSE LET created == log_responses(f.notification, batch_tokens,
                                              response.responses) IN
                 /\ manual' = [manual EXCEPT ![m].f =
                      [f EXCEPT
                         !.i = @ + BatchSize,
                         !.success_count =
                             @ + CountSuccess(response.responses),
                         !.failure_count =
                             @ + Len(response.responses)
                               - CountSuccess(response.responses),
                         !.sends = @ \o SubSeq(IdsOf(batch_tokens), 1,
                                               response.transport),
                         !.batches = Append(@, IdsOf(batch_tokens)),
                         !.results = @ \o response.responses,
                         !.outcomes = @ \o created]]
                 /\ UNCHANGED <<notifications, logs, rowlock, scheduled,
                                finished>>
    /\ UNCHANGED <<envvars, cred, threads, ncalls, devices, auto, api_calls, edits>>

\* _send_single_notification, lines 148-163, then the atomic block commits
\* and line 72 counts the notification
ManualFinish(m) ==
    /\ manual[m].pc = "batch"
    /\ manual[m].f.i >= Len(manual[m].f.target_tokens)
    /\ LET f == manual[m].f
           n == finalize(f.notification, f.success_count, f.failure_count) IN
       /\ notifications' = save(notifications, n)
       /\ logs' = logs \o f.outcomes
       /\ rowlock' = [rowlock EXCEPT ![n.id] = 0]
       /\ scheduled' = [scheduled EXCEPT
                          ![n.id] = @ + f.hooks + post_save(n, FALSE)]
       /\ finished' = finished \cup {Summary("manual", m, f, "completed", n)}
       /\ manual' = [manual EXCEPT
               ![m].pc = "loop", ![m].k = @ + 1, ![m].f = NoFrame,
               ![m].sent_count = @ + 1,
               ![m].messages = Append(@, [level |-> "success", about |-> n.id,
                                          text |-> "sent successfully"])]
    /\ UNCHANGED <<envvars, fbvars, devices, auto, api_calls, edits>>

\* send_notifications, lines 80-90: the loop is over
ManualDone(m) ==
    /\ manual[m].pc = "loop"
    /\ manual[m].k > Len(manual[m].selection)
    /\ manual' = [manual EXCEPT
            ![m].pc = "done",
            ![m].messages =
                @ \o (IF manual[m].sent_count > 0
                      THEN <<[level |-> "success", about |-> 0,
                              text |-> "Successfully sent"]>> ELSE <<>>)
                  \o (IF manual[m].error_count > 0
                      THEN <<[level |-> "error", about |-> 0,
                              text |-> "Failed to send"]>> ELSE <<>>)]
    /\ UNCHANGED <<envvars, fbvars, dbvars, scheduled, auto, finished, api_calls, edits>>

\* ------------------------------------------------------------ initial state
Reqs == 1..MaxSel
Manuals == 1..MaxManual
IdleAuto == [pc |-> "none"]
IdleManual == [pc |-> "idle"]
\* no add view is running; rolled_back counts the add views that failed
\* dropped: the on_commit callbacks they had registered
NoTransaction == [pc |-> "none", rolled_back |-> 0, dropped |-> 0]
NoResponse == [view |-> None, http |-> 0]

Init ==
    /\ firebase = [app |-> FALSE, initialized |-> FALSE, sdk_app |-> FALSE]
    /\ cred \in Credentials
    /\ init_attempts = 0
    /\ threads = [t \in Threads |-> IdleThread]
    /\ ncalls = 0
    /\ devices = <<>>
    /\ notifications = <<>>
    /\ logs = <<>>
    /\ rowlock = [r \in Reqs |-> 0]
    /\ scheduled = [r \in Reqs |-> 0]
    /\ auto = [r \in Reqs |-> IdleAuto]
    /\ manual = [m \in Manuals |-> IdleManual]
    /\ finished = {}
    /\ api_calls = 0
    /\ edits = 0
    /\ creating = NoTransaction
    /\ db_ok = TRUE
    /\ http_response = NoResponse

SpecFb == Init /\ [][NextFb]_vars

Next ==
    \/ \E token \in Tokens, device_type \in DeviceTypes,
          user \in RegisterUsers : Register(token, device_type, user)
    \/ \E token \in Tokens : Unregister(token)
    \/ \E auto_send \in BOOLEAN, send_to_all \in CreateSendToAll,
          target_device_types \in TargetDeviceTypes,
          target_users \in CreateTargetUsers :
            CreateNotification(auto_send, send_to_all, target_device_types,
                               target_users)
    \/ \E id \in Reqs, auto_send \in EditAutoSend :
            EditNotification(id, auto_send)
    \/ \E id \in Reqs : AutoStart(id)
    \/ \E id \in Reqs : AutoResolve(id)
    \/ \E id \in Reqs : AutoBatch(id)
    \/ \E id \in Reqs : AutoFinish(id)
    \/ \E m \in Manuals, queryset \in SUBSET Reqs : ManualSelect(m, queryset)
    \/ \E m \in Manuals : ManualEnter(m)
    \/ \E m \in Manuals : ManualResolve(m)
    \/ \E m \in Manuals : ManualBatch(m)
    \/ \E m \in Manuals : ManualFinish(m)
    \/ \E m \in Manuals : ManualDone(m)

Spec == Init /\ [][Next]_vars

\* ------------------------------------------- the admin add view's transaction
\* failures of the add view after save_model
MaxRollbacks == 1

\* the add view after save_model; hooks: the callbacks passed to on_commit
OpenTransaction(n, hooks) ==
    [pc |-> "open", n |-> n, hooks |-> hooks,
     rolled_back |-> creating.rolled_back, dropped |-> creating.dropped]

\* callbacks run whether the transaction commits or not
on_commit_any_outcome(hooks, outcome) == hooks

\* transaction.on_commit (signals.py 20): the callbacks the transaction
\* registered run when it commits and are discarded when it is rolled back
on_commit(hooks, outcome) == IF outcome = "commit" THEN hooks ELSE 0

\* the add view runs save_model inside its transaction (admin.py 58-61): the
\* row is inserted, not yet committed, and post_save calls the receiver
AddViewSave(auto_send, send_to_all, target_device_types, target_users) ==
    /\ creating.pc = "none"
    /\ Len(notifications) < MaxReq
    /\ LET n == NewNotification(Len(notifications) + 1, auto_send, send_to_all,
                                target_device_types, target_users) IN
       creating' = OpenTransaction(n, post_save(n, TRUE))
    /\ UNCHANGED <<fbvars, dbvars, runvars, db_ok, http_response>>

\* the callbacks of the transaction that ended with outcome are run: each
\* one is a call of send_notification_async(id)
run_hooks(id, hooks, outcome) ==
    /\ scheduled' = [scheduled EXCEPT ![id] = @ + on_commit(hooks, outcome)]
    /\ auto' = [auto EXCEPT ![id] =
                  IF on_commit(hooks, outcome) > 0
                  THEN [pc |-> "scheduled"] ELSE @]

\* the add view returns: the transaction commits
AddViewCommit ==
    /\ creating.pc = "open"
    /\ notifications' = Append(notifications, creating.n)
    /\ run_hooks(creating.n.id, creating.hooks, "commit")
    /\ creating' = [pc |-> "none", rolled_back |-> creating.rolled_back,
                    dropped |-> creating.dropped]
    /\ UNCHANGED <<fbvars, devices, logs, rowlock, manual, finished,
                   api_calls, edits, db_ok, http_response>>

\* the add view raises after save_model (saving the related users, writing
\* the admin log): the transaction is rolled back
AddViewRollback ==
    /\ creating.pc = "open"
    /\ creating.rolled_back < MaxRollbacks
    /\ run_hooks(creating.n.id, creating.hooks, "rollback")
    /\ creating' = [pc |-> "none", rolled_back |-> creating.rolled_back + 1,
                    dropped |-> creating.dropped + creating.hooks]
    /\ UNCHANGED <<fbvars, dbvars, manual, finished, api_calls, edits,
                   db_ok, http_response>>

NextTx ==
    \/ \E token \in Tokens, device_type \in DeviceTypes,
          user \in RegisterUsers : Register(token, device_type, user)
    \/ \E auto_send \in BOOLEAN, send_to_all \in CreateSendToAll,
          target_device_types \in TargetDeviceTypes,
          target_users \in CreateTargetUsers :
            AddViewSave(auto_send, send_to_all, target_device_types,
                        target_users)
    \/ AddViewCommit
    \/ AddViewRollback
    \/ \E id \in Reqs : AutoStart(id)
    \/ \E id \in Reqs : AutoResolve(id)
    \/ \E id \in Reqs : AutoBatch(id)
    \/ \E id \in Reqs : AutoFinish(id)

SpecTx == Init /\ [][NextTx]_vars

\* ------------------------------------------------------------ properties
Existing == 1..Len(notifications)
Terminal == {"sent", "failed"}
\* the lifecycle order draft -> sending -> {sent, failed}
Forward(a, b) ==
    \/ a = b
    \/ a = "draft"
    \/ a = "sending" /\ b \in Terminal

\* C1: the committed status of a notification only moves forward along
\* draft -> sending -> {sent, failed}, and never leaves sent or failed.
C1_StatusMonotonic ==
    [][\A r \in Existing :
         Forward(notifications[r].status, notifications'[r].status)]_vars

\* the passes in progress and the passes that returned
Frames ==
    {auto[r] : r \in {x \in Reqs : auto[x].pc \in {"resolve", "batch"}}} \cup
    {manual[m].f : m \in {x \in Manuals : manual[x].pc \in {"resolve", "batch"}}}

\* C2: a pass sets a notification to sending (and goes on to resolve, send and
\* log) only when the committed status was draft as the pass began.
C2_OnlyDraftEntersSending ==
    /\ \A f \in Frames : f.start_status = "draft"
    /\ \A s \in finished : s.start_status = "draft"

\* C3: when a pass has returned, the committed status is sent or failed, and
\* it is sent exactly when successful_sends > 0.
C3_FinishedIsTerminal ==
    \A s \in finished :
        /\ s.row.status \in Terminal
        /\ s.row.status = "sent" <=> s.row.successful_sends > 0

\* C4: successful_sends + failed_sends <= total_recipients in every committed
\* row, with equality when a pass has run to completion.
C4_CountersBounded ==
    /\ \A r \in Existing :
         notifications[r].successful_sends + notifications[r].failed_sends
             <= notifications[r].total_recipients
    /\ \A s \in finished :
         s.end = "completed" =>
             s.row.successful_sends + s.row.failed_sends
                 = s.row.total_recipients

\* C5: a pass that resolves an empty audience leaves the committed status
\* failed and total_recipients 0, sends nothing, logs nothing and reports the
\* error, on the automatic and on the manual path.
C5_EmptyAudienceFails ==
    \A s \in finished :
        s.end = "no_tokens" =>
            /\ s.row.status = "failed"
            /\ s.row.total_recipients = 0
            /\ s.sends = <<>>
            /\ s.outcomes = <<>>

\* C6: a pass that ran to completion created exactly one NotificationLog for
\* each endpoint of its resolved audience, in audience order, all of them
\* committed, and as many as total_recipients.
C6_OneOutcomePerRecipient ==
    \A s \in finished :
        s.end = "completed" =>
            /\ [k \in 1..Len(s.outcomes) |-> s.outcomes[k].device_token]
                   = s.audience
            /\ \A k \in 1..Len(s.outcomes) :
                   /\ s.outcomes[k].notification = s.notification
                   /\ \E j \in 1..Len(logs) : logs[j] = s.outcomes[k]
            /\ Len(s.outcomes) = s.row.total_recipients
            /\ Cardinality({s.audience[k] : k \in 1..Len(s.audience)})
                   = Len(s.audience)

\* a completed pass over an audience of more than one batch
C6_Witness ==
    \E s \in finished :
        s.end = "completed" /\ Len(s.audience) > BatchSize

\* C7: send_notification_to_token always returns a result and never raises.
C7_SendNeverRaises ==
    \A t \in Threads :
        threads[t].ret.op = "send_notification_to_token"
            => ~threads[t].ret.raised

\* C8: while the gateway client is unusable, a send call that returns answers
\* success = false with the fixed not-configured message for every recipient
\* and never calls messaging.send.
C8_UnconfiguredShortCircuits ==
    \A t \in Threads :
        LET ret == threads[t].ret IN
        (/\ ret.op \in {"send_notification_to_token",
                        "send_notification_to_multiple_tokens"}
         /\ ~ret.raised
         /\ ~ret.available)
            => /\ ret.transport = 0
               /\ \A k \in 1..Len(ret.responses) :
                      /\ ~ret.responses[k].success
                      /\ ret.responses[k].error = NOT_CONFIGURED

\* C9: the body of initialize_firebase runs at most once in the process.
C9_InitAtMostOnce == init_attempts <= 1

\* C10: an on_commit dispatch is registered only by the save that creates a
\* notification with auto_send set and status draft; no other save registers
\* one, so a notification has at most one.
C10_ScheduledOnlyOnCreate ==
    [][\A r \in Reqs :
         /\ scheduled'[r] <= 1
         /\ scheduled'[r] # scheduled[r] =>
              /\ Len(notifications') = Len(notifications) + 1
              /\ r = Len(notifications')
              /\ notifications'[r].auto_send
              /\ notifications'[r].status = "draft"]_vars

\* a notification scheduled once, saved again by the change form and by a
\* whole automatic pass
C10_Witness ==
    \E r \in Existing :
        /\ scheduled[r] = 1
        /\ edits > 0
        /\ auto[r].pc = "done"

\* --------------------------------- the automatic pipeline and the database
\* The database stops answering, and answers again: while it does not, the
\* next statement of a thread raises (OperationalError). Only the automatic
\* pipeline is followed through an outage.
DbFail ==
    /\ db_ok
    /\ db_ok' = FALSE
    /\ UNCHANGED <<fbvars, dbvars, runvars, creating, http_response>>

DbRecover ==
    /\ ~db_ok
    /\ db_ok' = TRUE
    /\ UNCHANGED <<fbvars, dbvars, runvars, creating, http_response>>

\* send_notification_async: a statement of lines 28-44 or the save of line
\* 92 raises; control goes to the handler of line 99
AutoDbError(id) ==
    /\ ~db_ok
    /\ id \in 1..Len(notifications)
    /\ \/ /\ auto[id].pc = "scheduled"
          /\ auto' = [auto EXCEPT ![id] =
                 [Frame(notifications[id], notifications[id].status)
                    EXCEPT !.pc = "handler"]]
       \/ /\ auto[id].pc = "resolve"
          /\ auto' = [auto EXCEPT ![id].pc = "handler"]
       \/ /\ auto[id].pc = "batch"
          /\ auto[id].i >= Len(auto[id].target_tokens)
          /\ auto' = [auto EXCEPT ![id].pc = "handler"]
    /\ UNCHANGED <<fbvars, dbvars, scheduled, manual, finished, api_calls,
                   edits, envvars>>

\* send_notification_async, lines 56-75, while the database is away: the
\* bulk call of a batch raises, or it returns and the first
\* NotificationLog.objects.create raises
AutoLogError(id) ==
    /\ ~db_ok
    /\ auto[id].pc = "batch"
    /\ auto[id].i < Len(auto[id].target_tokens)
    /\ LET f == auto[id]
           batch_tokens == batch_slice(f.target_tokens, f.i) IN
       \E gw \in GatewayBehaviours(Len(batch_tokens)) :
         LET response == send_notification_to_multiple_tokens(
                             firebase, cred, TokensOf(batch_tokens), gw) IN
         /\ firebase' = response.fb
         /\ init_attempts' = init_attempts + response.attempts
         /\ auto' = [auto EXCEPT ![id] =
                [f EXCEPT !.pc = "handler",
                          !.batches = Append(@, IdsOf(batch_tokens)),
                          !.results = @ \o response.responses,
                          !.sends = @ \o SubSeq(IdsOf(batch_tokens), 1,
                                                response.transport)]]
    /\ UNCHANGED <<cred, threads, ncalls, dbvars, scheduled, manual, finished,
                   api_calls, edits, envvars>>

\* send_notification_async, lines 99-106: the handler; when its own get or
\* save raises, the bare except of line 105 swallows that
AutoHandler(id) ==
    /\ auto[id].pc = "handler"
    /\ IF db_ok
       THEN /\ rowlock[id] = 0
            /\ LET n == handler_row(notifications[id]) IN
               /\ notifications' = save(notifications, n)
               /\ scheduled' = [scheduled EXCEPT
                                  ![id] = @ + post_save(n, FALSE)]
               /\ finished' = finished \cup
                    {Summary("auto", 0, auto[id], "raised", n)}
       ELSE /\ finished' = finished \cup
                    {Summary("auto", 0, auto[id], "swallowed",
                             notifications[id])}
            /\ UNCHANGED <<notifications, scheduled>>
    /\ auto' = [auto EXCEPT ![id] = [pc |-> "done"]]
    /\ UNCHANGED <<fbvars, devices, logs, rowlock, manual, api_calls, edits,
                   envvars>>

NextAuto ==
    \/ \E token \in Tokens, device_type \in DeviceTypes,
          user \in RegisterUsers : Register(token, device_type, user)
    \/ \E auto_send \in BOOLEAN, send_to_all \in CreateSendToAll,
          target_device_types \in TargetDeviceTypes,
          target_users \in CreateTargetUsers :
            CreateNotification(auto_send, send_to_all, target_device_types,
                               target_users)
    \/ DbFail
    \/ DbRecover
    \/ \E id \in Reqs : AutoStart(id)
    \/ \E id \in Reqs : AutoResolve(id)
    \/ \E id \in Reqs : AutoBatch(id)
    \/ \E id \in Reqs : AutoFinish(id)
    \/ \E id \in Reqs : AutoDbError(id)
    \/ \E id \in Reqs : AutoLogError(id)
    \/ \E id \in Reqs : AutoHandler(id)

SpecAuto == Init /\ [][NextAuto]_vars

\* transaction.on_commit runs send_notification_async in the thread of the
\* request, synchronously: the statement the function has reached is
\* executed, and it returns or raises
AutoStep(id) ==
    \/ AutoStart(id)
    \/ AutoResolve(id)
    \/ AutoBatch(id)
    \/ AutoFinish(id)
    \/ AutoDbError(id)
    \/ AutoLogError(id)
    \/ AutoHandler(id)

SpecAutoFair == SpecAuto /\ \A id \in Reqs : WF_vars(AutoStep(id))

\* ------------------------------------------- the registration API (views.py)
\* request.data without "token", or with an empty one
NoToken == 0
\* the user_id values clients send: none, a user's, nobody's
UserIds == {NoUser} \cup AllUsers \cup {3}

Known(table, token) == \E k \in 1..Len(table) : table[k].token = token
RowOf(table, token) ==
    table[CHOOSE k \in 1..Len(table) : table[k].token = token]
ApiRequest(token, device_type, user_id) ==
    [token |-> token, device_type |-> device_type, user_id |-> user_id]

\* register_device_token, lines 27-63: [table, response].
\* was_active, was_user: the row of the token before the call, kept for the
\* properties
register_device_token(table, token, device_type, user_id) ==
    LET request == ApiRequest(token, device_type, user_id) IN
    IF token = NoToken
    THEN [table |-> table,
          response |-> [view |-> "register_device_token",
                        http |-> HTTP_400_BAD_REQUEST, request |-> request]]
    ELSE IF user_id # NoUser /\ user_id \notin AllUsers
    THEN [table |-> table,
          response |-> [view |-> "register_device_token",
                        http |-> HTTP_404_NOT_FOUND, request |-> request]]
    ELSE LET created == ~Known(table, token)
             after == update_or_create(table, token, device_type, user_id) IN
         [table |-> after,
          response |-> [view |-> "register_device_token",
                        http |-> IF created THEN HTTP_201_CREATED
                                 ELSE HTTP_200_OK,
                        request |-> request, created |-> created,
                        device_token_id |-> RowOf(after, token).id,
                        was_active |-> ~created /\ RowOf(table, token).is_active,
                        was_user |-> IF created THEN NoUser
                                     ELSE RowOf(table, token).user]]

\* unregister_device_token, lines 84-106: [table, response].
\* get_object_or_404 raises Http404 inside the try of line 84; Http404 is an
\* Exception, so the handler of line 101 answers it
unregister_device_token(table, token) ==
    LET request == ApiRequest(token, None, NoUser) IN
    IF token = NoToken
    THEN [table |-> table,
          response |-> [view |-> "unregister_device_token",
                        http |-> HTTP_400_BAD_REQUEST, request |-> request]]
    ELSE IF ~Known(table, token)
    THEN [table |-> table,
          response |-> [view |-> "unregister_device_token",
                        http |-> HTTP_500_INTERNAL_SERVER_ERROR,
                        request |-> request]]
    ELSE [table |-> [k \in 1..Len(table) |->
                       IF table[k].token = token
                       THEN [table[k] EXCEPT !.is_active = FALSE]
                       ELSE table[k]],
          response |-> [view |-> "unregister_device_token",
                        http |-> HTTP_200_OK, request |-> request]]

ApiRegister(token, device_type, user_id) ==
    /\ api_calls < MaxApiCalls
    /\ token <= Len(devices) + 1
    /\ api_calls' = api_calls + 1
    /\ LET r == register_device_token(devices, token, device_type, user_id) IN
       /\ devices' = r.table
       /\ http_response' = r.response
    /\ UNCHANGED <<fbvars, notifications, logs, rowlock, scheduled, auto,
                   manual, finished, edits, creating, db_ok>>

ApiUnregister(token) ==
    /\ api_calls < MaxApiCalls
    /\ token <= Len(devices) + 1
    /\ api_calls' = api_calls + 1
    /\ LET r == unregister_device_token(devices, token) IN
       /\ devices' = r.table
       /\ http_response' = r.response
    /\ UNCHANGED <<fbvars, notifications, logs, rowlock, scheduled, auto,
                   manual, finished, edits, creating, db_ok>>

NextApi ==
    \/ \E token \in Tokens \cup {NoToken}, device_type \in AllDeviceTypes,
          user_id \in UserIds : ApiRegister(token, device_type, user_id)
    \/ \E token \in Tokens \cup {NoToken} : ApiUnregister(token)

SpecApi == Init /\ [][NextApi]_vars

\* ------------------------------------------------------ audience resolution
\* inputs: devices of every platform, with and without owner, each token
\* registered once and before the notification is created; notifications with
\* every combination of the targeting fields, for nobody or for user 1; the
\* operator selects notifications created without "Send immediately"; the
\* gateway is configured
MaxResolveTokens == 2
ResolveTargetUsers == {{}, {1}}
InitResolve == Init /\ cred = "valid"

NextResolve ==
    \/ \E token \in 1..MaxResolveTokens, device_type \in AllDeviceTypes,
          user \in AllUsers \cup {NoUser} :
            /\ notifications = <<>>
            /\ token = Len(devices) + 1
            /\ Register(token, device_type, user)
    \/ \E token \in 1..MaxResolveTokens : Unregister(token)
    \/ \E auto_send \in BOOLEAN, send_to_all \in BOOLEAN,
          target_device_types \in TargetDeviceTypes,
          target_users \in ResolveTargetUsers :
            CreateNotification(auto_send, send_to_all, target_device_types,
                               target_users)
    \/ \E id \in Reqs : AutoStart(id)
    \/ \E id \in Reqs : AutoResolve(id)
    \/ \E id \in Reqs : AutoBatch(id)
    \/ \E id \in Reqs : AutoFinish(id)
    \/ \E m \in Manuals, queryset \in SUBSET Reqs :
            /\ \A r \in queryset \cap (1..Len(notifications)) :
                   ~notifications[r].auto_send
            /\ ManualSelect(m, queryset)
    \/ \E m \in Manuals : ManualEnter(m)
    \/ \E m \in Manuals : ManualResolve(m)
    \/ \E m \in Manuals : ManualBatch(m)
    \/ \E m \in Manuals : ManualFinish(m)
    \/ \E m \in Manuals : ManualDone(m)

SpecResolve == InitResolve /\ [][NextResolve]_vars

\* ----------------------------------------------------------------- batching
\* inputs: an audience of several batches, every endpoint registered once and
\* before the notification is created; a broadcast notification; the operator
\* selects notifications created without "Send immediately"; the gateway is
\* configured
MaxAudience == 5

RegisterMany(token, device_type) ==
    /\ notifications = <<>>
    /\ Len(devices) < MaxAudience
    /\ token = Len(devices) + 1
    /\ api_calls' = api_calls + 1
    /\ devices' = register_device_token(devices, token, device_type,
                                        NoUser).table
    /\ UNCHANGED <<fbvars, notifications, logs, rowlock, scheduled, auto,
                   manual, finished, edits, envvars>>

NextBatch ==
    \/ \E token \in 1..MaxAudience : RegisterMany(token, "android")
    \/ \E auto_send \in BOOLEAN :
            CreateNotification(auto_send, TRUE, "all", {})
    \/ \E id \in Reqs : AutoStart(id)
    \/ \E id \in Reqs : AutoResolve(id)
    \/ \E id \in Reqs : AutoBatch(id)
    \/ \E id \in Reqs : AutoFinish(id)
    \/ \E m \in Manuals, queryset \in SUBSET Reqs :
            /\ \A r \in queryset \cap (1..Len(notifications)) :
                   ~notifications[r].auto_send
            /\ ManualSelect(m, queryset)
    \/ \E m \in Manuals : ManualEnter(m)
    \/ \E m \in Manuals : ManualResolve(m)
    \/ \E m \in Manuals : ManualBatch(m)
    \/ \E m \in Manuals : ManualFinish(m)
    \/ \E m \in Manuals : ManualDone(m)

SpecBatch == InitResolve /\ [][NextBatch]_vars

\* ------------------------------------- two automatic dispatches side by side
\* inputs: notifications created with "Send immediately" by two admin
\* requests served by threads of one process; one device; the gateway is
\* configured
MaxPair == 2

CreatePair(target_device_types) ==
    /\ Len(notifications) < MaxPair
    /\ create(TRUE, TRUE, target_device_types, {})

\* send_notification_async at line 58, inside the bulk call at line 132 of
\* firebase_service.py: the thread evaluates line 21 of initialize_firebase
\* and finds the client not initialized
AutoInitCheck(id) ==
    /\ auto[id].pc = "batch"
    /\ auto[id].i < Len(auto[id].target_tokens)
    /\ InitNeeded(firebase)
    /\ auto' = [auto EXCEPT ![id].pc = "init"]
    /\ UNCHANGED <<fbvars, dbvars, scheduled, manual, finished, api_calls,
                   edits, envvars>>

\* the thread, past line 21, runs lines 22-39; when they raise, the bulk call
\* raises and the handler of lines 99-106 of signals.py runs
AutoInit(id) ==
    /\ auto[id].pc = "init"
    /\ LET r == InitAttempt(firebase, cred) IN
       /\ firebase' = r.fb
       /\ init_attempts' = init_attempts + 1
       /\ IF r.raised
          THEN /\ db_ok
               /\ rowlock[id] = 0
               /\ LET n == handler_row(notifications[id]) IN
                  /\ notifications' = save(notifications, n)
                  /\ scheduled' = [scheduled EXCEPT
                                     ![id] = @ + post_save(n, FALSE)]
                  /\ finished' = finished \cup
                       {Summary("auto", 0,
                                [auto[id] EXCEPT !.batches =
                                    Append(@, IdsOf(batch_slice(
                                        auto[id].target_tokens, auto[id].i)))],
                                "raised", n)}
               /\ auto' = [auto EXCEPT ![id] = [pc |-> "done"]]
          ELSE /\ auto' = [auto EXCEPT ![id].pc = "batch"]
               /\ UNCHANGED <<notifications, scheduled, finished>>
    /\ UNCHANGED <<cred, threads, ncalls, devices, logs, rowlock, manual,
                   api_calls, edits, envvars>>

NextPair ==
    \/ \E device_type \in DeviceTypes :
          devices = <<>> /\ Register(1, device_type, NoUser)
    \/ \E target_device_types \in TargetDeviceTypes :
          CreatePair(target_device_types)
    \/ \E id \in Reqs : AutoStart(id)
    \/ \E id \in Reqs : AutoResolve(id)
    \/ \E id \in Reqs : AutoInitCheck(id)
    \/ \E id \in Reqs : AutoInit(id)
    \/ \E id \in Reqs : AutoBatch(id)
    \/ \E id \in Reqs : AutoFinish(id)

SpecPair == InitResolve /\ [][NextPair]_vars

\* ---------------------------------------- an action over several notifications
\* inputs: one device registers, once; the operator ticks "Send immediately"
\* on the first notification only
CreateSelected(auto_send, send_to_all, target_device_types, target_users) ==
    /\ Len(notifications) < MaxSel
    /\ auto_send => notifications = <<>>
    /\ create(auto_send, send_to_all, target_device_types, target_users)

NextSel ==
    \/ \E device_type \in DeviceTypes :
          devices = <<>> /\ Register(1, device_type, NoUser)
    \/ \E auto_send \in BOOLEAN, send_to_all \in CreateSendToAll,
          target_device_types \in TargetDeviceTypes,
          target_users \in CreateTargetUsers :
            CreateSelected(auto_send, send_to_all, target_device_types,
                           target_users)
    \/ \E id \in Reqs : AutoStart(id)
    \/ \E id \in Reqs : AutoResolve(id)
    \/ \E id \in Reqs : AutoBatch(id)
    \/ \E id \in Reqs : AutoFinish(id)
    \/ \E m \in Manuals, queryset \in SUBSET Reqs : ManualSelect(m, queryset)
    \/ \E m \in Manuals : ManualEnter(m)
    \/ \E m \in Manuals : ManualResolve(m)
    \/ \E m \in Manuals : ManualBatch(m)
    \/ \E m \in Manuals : ManualFinish(m)
    \/ \E m \in Manuals : ManualDone(m)

SpecSel == Init /\ [][NextSel]_vars

\* ----------------------------- the manual action and the database (SpecManual)
\* the text of the database exception
DB_ERROR == "OperationalError"

\* _send_single_notification: the save of line 98, the query of line 101,
\* the save of line 109 or the save of line 157 raises; the exception leaves
\* the atomic block of line 70
ManualDbError(m) ==
    /\ ~db_ok
    /\ \/ /\ manual[m].pc = "loop"
          /\ manual[m].k <= Len(manual[m].selection)
          /\ LET notification == manual[m].selection[manual[m].k] IN
             /\ rowlock[notification.id] = 0
             /\ manual_rollback(m, Frame(notification,
                                         notifications[notification.id].status),
                                DB_ERROR, "raised")
       \/ /\ manual[m].pc = "resolve"
          /\ manual_rollback(m, manual[m].f, DB_ERROR, "raised")
       \/ /\ manual[m].pc = "batch"
          /\ manual[m].f.i >= Len(manual[m].f.target_tokens)
          /\ manual_rollback(m, manual[m].f, DB_ERROR, "raised")
    /\ UNCHANGED <<envvars, fbvars, devices, auto, api_calls, edits>>

\* _send_single_notification, lines 121-140: the bulk call of a batch returns
\* and the first NotificationLog.objects.create raises
ManualLogError(m) ==
    /\ ~db_ok
    /\ manual[m].pc = "batch"
    /\ manual[m].f.i < Len(manual[m].f.target_tokens)
    /\ LET f == manual[m].f
           batch_tokens == batch_slice(f.target_tokens, f.i) IN
       \E gw \in GatewayBehaviours(Len(batch_tokens)) :
         LET response == send_notification_to_multiple_tokens(
                             firebase, cred, TokensOf(batch_tokens), gw) IN
         /\ ~response.raised
         /\ firebase' = response.fb
         /\ init_attempts' = init_attempts + response.attempts
         /\ manual_rollback(m,
                [f EXCEPT !.batches = Append(@, IdsOf(batch_tokens)),
                          !.results = @ \o response.responses,
                          !.sends = @ \o SubSeq(IdsOf(batch_tokens), 1,
                                                response.transport)],
                DB_ERROR, "raised")
    /\ UNCHANGED <<envvars, cred, threads, ncalls, devices, auto, api_calls,
                   edits>>

\* drafts without auto_send, dispatched by the operator while the database
\* goes away and comes back
NextManual ==
    \/ \E token \in Tokens, device_type \in DeviceTypes,
          user \in RegisterUsers : Register(token, device_type, user)
    \/ \E send_to_all \in CreateSendToAll,
          target_device_types \in TargetDeviceTypes,
          target_users \in CreateTargetUsers :
            CreateNotification(FALSE, send_to_all, target_device_types,
                               target_users)
    \/ DbFail
    \/ DbRecover
    \/ \E m \in Manuals, queryset \in SUBSET Reqs :
            db_ok /\ ManualSelect(m, queryset)
    \/ \E m \in Manuals : db_ok /\ ManualEnter(m)
    \/ \E m \in Manuals : db_ok /\ ManualResolve(m)
    \/ \E m \in Manuals : db_ok /\ ManualBatch(m)
    \/ \E m \in Manuals : db_ok /\ ManualFinish(m)
    \/ \E m \in Manuals : ManualDone(m)
    \/ \E m \in Manuals : ManualDbError(m)
    \/ \E m \in Manuals : ManualLogError(m)

SpecManual == Init /\ [][NextManual]_vars

\* ------------------------------------------- the admin site (SpecFrame)
\* NotificationLogAdmin (admin.py 180-212) turns off add and change and
\* leaves has_delete_permission at the ModelAdmin default: the changelist
\* offers 'delete selected' and every row has a delete view
AdminDeleteLog(k) ==
    /\ k \in 1..Len(logs)
    /\ logs' = SubSeq(logs, 1, k - 1) \o SubSeq(logs, k + 1, Len(logs))
    /\ UNCHANGED <<envvars, fbvars, devices, notifications, rowlock,
                   scheduled, auto, manual, finished, api_calls, edits>>

\* both pipelines over audiences of several batches, endpoints being
\* unregistered and the operator deleting rows of the log
NextFrame ==
    \/ \E token \in 1..MaxAudience : RegisterMany(token, "android")
    \/ \E token \in 1..MaxResolveTokens : Unregister(token)
    \/ \E auto_send \in BOOLEAN :
            CreateNotification(auto_send, TRUE, "all", {})
    \/ \E id \in Reqs : AutoStart(id)
    \/ \E id \in Reqs : AutoResolve(id)
    \/ \E id \in Reqs : AutoBatch(id)
    \/ \E id \in Reqs : AutoFinish(id)
    \/ \E m \in Manuals, queryset \in SUBSET Reqs :
            /\ \A r \in queryset \cap (1..Len(notifications)) :
                   ~notifications[r].auto_send
            /\ ManualSelect(m, queryset)
    \/ \E m \in Manuals : ManualEnter(m)
    \/ \E m \in Manuals : ManualResolve(m)
    \/ \E m \in Manuals : ManualBatch(m)
    \/ \E m \in Manuals : ManualFinish(m)
    \/ \E m \in Manuals : ManualDone(m)
    \/ \E k \in 1..MaxAudience : AdminDeleteLog(k)

SpecFrame == InitResolve /\ [][NextFrame]_vars

\* C11: a notification that is not committed (its add view still runs, or was
\* rolled back) has no dispatch scheduled, running or returned, and no
\* NotificationLog; send_notification_async starts on committed rows only.
C11_DispatchOnlyAfterCommit ==
    \A r \in Reqs :
        r \notin Existing =>
            /\ auto[r].pc = "none"
            /\ scheduled[r] = 0
            /\ \A k \in 1..Len(logs) : logs[k].notification # r
            /\ \A s \in finished : s.notification # r

\* an add view that had registered the dispatch was rolled back, and a later
\* one committed and its dispatch ran
C11_Witness ==
    /\ creating.dropped > 0
    /\ \E s \in finished : s.kind = "auto" /\ s.sends # <<>>

\* the notifications of the selection that were draft when action m read it
SelIds(m) ==
    {manual[m].selection[k].id : k \in 1..Len(manual[m].selection)}
PassesOf(m) == {s \in finished : s.kind = "manual" /\ s.by = m}

\* C12: in one action every notification that was draft when the selection
\* was read gets its own pass, whatever the passes before it did; a pass that
\* raises changes no committed row and no NotificationLog; the notifications
\* that were not draft get no pass, no write and no message.
C12_Isolated ==
    \A m \in Manuals :
        manual[m].pc # "idle" =>
            /\ \A s \in PassesOf(m) : s.notification \in SelIds(m)
            /\ \A j \in 1..Len(manual[m].messages) :
                   manual[m].messages[j].about \in SelIds(m) \cup {0}
            /\ manual[m].pc = "done" =>
                   /\ \A r \in SelIds(m) :
                          \E s \in PassesOf(m) : s.notification = r
                   /\ manual[m].sent_count + manual[m].error_count
                          = Len(manual[m].selection)
C12_Steps ==
    \A m \in Manuals :
        (manual[m].pc # "idle" /\ manual'[m] # manual[m]) =>
            /\ \A r \in Existing :
                   notifications'[r] # notifications[r] => r \in SelIds(m)
            /\ \A k \in (Len(logs) + 1)..Len(logs') :
                   logs'[k].notification \in SelIds(m)
            /\ manual'[m].error_count > manual[m].error_count =>
                   notifications' = notifications /\ logs' = logs
C12_IndependentTransactions == [](C12_Isolated) /\ [][C12_Steps]_vars

\* an action over three notifications: one was not draft and is skipped, one
\* raises, and the one after it is dispatched and committed
C12_Witness ==
    \E m \in Manuals :
        /\ manual[m].pc = "done"
        /\ manual[m].queryset \ SelIds(m) # {}
        /\ \E a, b \in SelIds(m) :
              /\ a > b
              /\ \E s \in PassesOf(m) :
                    s.notification = a /\ s.end # "completed"
              /\ \E s \in PassesOf(m) :
                    /\ s.notification = b /\ s.end = "completed"
                    /\ s.row.status = "sent"

\* the automatic passes that ended in the handler of lines 99-106
Handled == {s \in finished : s.kind = "auto" /\ s.end \in {"raised", "swallowed"}}

\* C13 as stated: after any exception inside the automatic pipeline the
\* function has returned and the committed status is failed.
C13_ExceptionForcesFailed ==
    \A s \in Handled : s.row.status = "failed"

\* C13 as the code has it: the function returns; the committed status is
\* failed when the handler's own get and save went through; when they raised
\* too, that is swallowed and the row stays as the pass left it.
C13_BestEffortFailed ==
    /\ \A r \in Reqs : auto[r].pc = "done" =>
           \E s \in finished : s.kind = "auto" /\ s.notification = r
    /\ \A s \in Handled :
           /\ s.end = "raised" => s.row.status = "failed"
           /\ s.end = "swallowed" =>
                  s.row.status \in {"draft", "sending"}

\* a pass whose NotificationLog write raised after a batch had been sent by
\* a working gateway, the handler's own save going through
C13_Witness ==
    /\ \E s \in Handled : s.end = "raised" /\ s.sends # <<>>
    /\ cred = "valid"

\* the step in which a pass resolves its audience, and the audience it gets
AutoResolves(r) == auto[r].pc = "resolve" /\ auto'[r].pc \in {"batch", "done"}
AutoAudience(r) ==
    IF auto'[r].pc = "batch" THEN auto'[r].target_tokens ELSE <<>>
ManualResolves(m) ==
    manual[m].pc = "resolve" /\ manual'[m].pc \in {"batch", "loop"}
ManualAudience(m) ==
    IF manual'[m].pc = "batch" THEN manual'[m].f.target_tokens ELSE <<>>
Rows(table) == {table[k] : k \in 1..Len(table)}
IdSet(ids) == {ids[k] : k \in 1..Len(ids)}

\* every endpoint of the audience is a row that is active as the resolution
\* runs and, under a platform filter, of that platform
ActiveAndOfPlatform(audience, n) ==
    \A d \in Rows(audience) :
        /\ d \in Rows(devices)
        /\ d.is_active
        /\ n.target_device_types # "all" =>
               d.device_type = n.target_device_types

\* C14: audience resolution, automatic and manual, returns only endpoints
\* that are active at resolution time and match the platform filter; a pass
\* sends to and logs for endpoints of its resolved audience only.
C14_Steps ==
    /\ \A r \in Reqs : AutoResolves(r) =>
           ActiveAndOfPlatform(AutoAudience(r), auto[r].notification)
    /\ \A m \in Manuals : ManualResolves(m) =>
           ActiveAndOfPlatform(ManualAudience(m), manual[m].f.notification)
C14_WithinAudience ==
    /\ \A f \in Frames :
           /\ IdSet(f.sends) \subseteq IdSet(IdsOf(f.target_tokens))
           /\ \A k \in 1..Len(f.outcomes) :
                  f.outcomes[k].device_token \in IdSet(IdsOf(f.target_tokens))
    /\ \A s \in finished :
           /\ IdSet(s.sends) \subseteq IdSet(s.audience)
           /\ \A k \in 1..Len(s.outcomes) :
                  s.outcomes[k].device_token \in IdSet(s.audience)
C14_ActiveAndPlatform == [](C14_WithinAudience) /\ [][C14_Steps]_vars

\* a completed pass with platform filter ios over a table that also holds an
\* endpoint of another platform or an unregistered endpoint
C14_Witness ==
    \E s \in finished :
        /\ s.end = "completed"
        /\ s.row.target_device_types = "ios"
        /\ Len(s.audience) < Len(devices)

\* the audience the targeting fields of n call for
Expected(n) ==
    {d \in Rows(devices) :
        /\ d.is_active
        /\ n.target_device_types # "all" =>
               d.device_type = n.target_device_types
        /\ (~n.send_to_all /\ n.target_users # {}) =>
               d.user \in n.target_users}

\* C15: the user restriction applies exactly when send_to_all is false and
\* target_users is not empty: then only endpoints owned by a user of the set
\* are returned; otherwise every active endpoint passing the platform filter.
C15_Steps ==
    /\ \A r \in Reqs : AutoResolves(r) =>
           LET n == auto[r].notification
               got == Rows(AutoAudience(r)) IN
           /\ got = Expected(n)
           /\ (~n.send_to_all /\ n.target_users # {}) =>
                  \A d \in got : d.user # NoUser /\ d.user \in n.target_users
    /\ \A m \in Manuals : ManualResolves(m) =>
           LET n == manual[m].f.notification
               got == Rows(ManualAudience(m)) IN
           /\ got = Expected(n)
           /\ (~n.send_to_all /\ n.target_users # {}) =>
                  \A d \in got : d.user # NoUser /\ d.user \in n.target_users
C15_UserRestriction == [][C15_Steps]_vars

\* a pass restricted to a user's endpoints, for every platform, that went to
\* one and left out an active endpoint without owner or of another user
C15_Witness ==
    \E s \in finished :
        /\ ~s.row.send_to_all
        /\ s.row.target_users # {}
        /\ s.audience # <<>>
        /\ \E k \in 1..Len(devices) :
              /\ devices[k].is_active
              /\ devices[k].id \notin IdSet(s.audience)
              /\ s.row.target_device_types = "all"

\* the step is a call of the view, answered with one of the codes
Answered(view, codes) ==
    /\ api_calls' = api_calls + 1
    /\ http_response'.view = view
    /\ http_response'.http \in codes

\* C16: no two DeviceToken rows share a token; a registration of a token that
\* is already in the table adds no row, leaves that row with the device_type
\* and user of this registration, active, and answers 200 with created false.
C16_Unique ==
    \A j, k \in 1..Len(devices) :
        devices[j].token = devices[k].token => j = k
C16_Steps ==
    (/\ Answered("register_device_token", {HTTP_200_OK, HTTP_201_CREATED})
     /\ Known(devices, http_response'.request.token)) =>
        LET request == http_response'.request IN
        /\ Len(devices') = Len(devices)
        /\ RowOf(devices', request.token).device_type = request.device_type
        /\ RowOf(devices', request.token).user = request.user_id
        /\ RowOf(devices', request.token).is_active
        /\ RowOf(devices', request.token).id = RowOf(devices, request.token).id
        /\ \A k \in 1..Len(devices) :
               devices[k].token # request.token => devices'[k] = devices[k]
        /\ http_response'.http = HTTP_200_OK
        /\ ~http_response'.created
C16_RegistrationIdempotent == [](C16_Unique) /\ [][C16_Steps]_vars

\* a token registered again, now as a web endpoint of user 2, in a table of
\* two endpoints
C16_Witness ==
    /\ http_response.view = "register_device_token"
    /\ http_response.http = HTTP_200_OK
    /\ \E k \in 1..Len(devices) :
          /\ devices[k].token = http_response.request.token
          /\ devices[k].device_type = "web"
          /\ devices[k].user = 2
    /\ Len(devices) = 2

\* C17: unregistering a known token sets is_active false on its row and
\* deletes nothing; unregistering an unknown token answers 404, not 500, and
\* changes no row.
C17_Steps ==
    Answered("unregister_device_token",
             {HTTP_200_OK, HTTP_404_NOT_FOUND,
              HTTP_500_INTERNAL_SERVER_ERROR}) =>
        LET token == http_response'.request.token IN
        IF Known(devices, token)
        THEN /\ http_response'.http = HTTP_200_OK
             /\ Len(devices') = Len(devices)
             /\ ~RowOf(devices', token).is_active
             /\ \A k \in 1..Len(devices) :
                    devices[k].token # token => devices'[k] = devices[k]
        ELSE /\ http_response'.http = HTTP_404_NOT_FOUND
             /\ devices' = devices
C17_UnregisterNotFound == [][C17_Steps]_vars

\* C18: while the gateway client is unusable, every call of the test-send
\* view is answered 503 and calls messaging.send for nothing; the view never
\* creates a NotificationLog.
C18_TestSendUnavailable ==
    /\ \A t \in Threads :
           (threads[t].ret.op = "send_test_notification" /\ ~firebase.app) =>
               /\ threads[t].ret.http = HTTP_503_SERVICE_UNAVAILABLE
               /\ threads[t].ret.transport = 0
    /\ (\E t \in Threads : threads[t].ret.op = "send_test_notification") =>
           logs = <<>>

\* C19: a completed pass over an audience of n >= 1 endpoints made
\* ceil(n / BatchSize) bulk calls; each call took at most BatchSize endpoints
\* and every call but the last exactly BatchSize; call k took the endpoints
\* (k - 1) * BatchSize + 1 .. of the resolved list, in order, and together
\* they took all of it.
C19_Batches ==
    \A s \in finished :
        s.end = "completed" =>
            LET n == Len(s.audience)
                calls == s.batches IN
            /\ n >= 1
            /\ Len(calls) = (n + BatchSize - 1) \div BatchSize
            /\ \A k \in 1..Len(calls) :
                   /\ Len(calls[k]) >= 1
                   /\ Len(calls[k]) <= BatchSize
                   /\ k < Len(calls) => Len(calls[k]) = BatchSize
                   /\ (k - 1) * BatchSize + Len(calls[k]) <= n
                   /\ \A j \in 1..Len(calls[k]) :
                          calls[k][j] = s.audience[(k - 1) * BatchSize + j]
            /\ (Len(calls) - 1) * BatchSize + Len(calls[Len(calls)]) = n

\* a completed pass of three bulk calls, the last one not full
C19_Witness ==
    \E s \in finished :
        /\ s.end = "completed"
        /\ Len(s.batches) = 3
        /\ Len(s.batches[3]) < BatchSize

SuccessesOf(outcomes) ==
    Cardinality({k \in 1..Len(outcomes) : outcomes[k].status = "success"})

\* C20: with a configured gateway, the dispatch of a request that runs next
\* to the dispatch of another request ends as it does alone: it never ends
\* in the exception handler; over a non-empty audience it completes with one
\* outcome per endpoint, all its own, counters that count those outcomes and
\* status sent exactly when one succeeded; and its row stays as it left it.
C20_NoInterference ==
    \A s \in finished :
        /\ s.end # "raised"
        /\ s.end = "completed" <=> s.audience # <<>>
        /\ \A k \in 1..Len(s.outcomes) :
               s.outcomes[k].notification = s.notification
        /\ [k \in 1..Len(s.outcomes) |-> s.outcomes[k].device_token]
               = s.audience
        /\ s.row.successful_sends = SuccessesOf(s.outcomes)
        /\ s.row.failed_sends = Len(s.outcomes) - SuccessesOf(s.outcomes)
        /\ s.row.status = IF s.row.successful_sends > 0 THEN "sent"
                          ELSE "failed"
        /\ notifications[s.notification] = s.row

\* ------------------------------------------------------------------ C21
\* outcome k of a pass is the record of result k of its bulk calls
OutcomesRecord(outcomes, results) ==
    /\ Len(outcomes) <= Len(results)
    /\ \A k \in 1..Len(outcomes) :
           /\ devices[outcomes[k].device_token].token = results[k].token
           /\ (outcomes[k].status = "success") <=> results[k].success
           /\ outcomes[k].status \in {"success", "failed"}
           /\ outcomes[k].error_message =
                  IF results[k].success THEN None ELSE results[k].error

\* C21: every outcome of a pass references the endpoint whose token the
\* corresponding result of the bulk call was produced for, is a success
\* exactly when that result is one, and carries the result's error on
\* failure and no error on success; a pass that ran to completion has one
\* outcome per result and leaves counters that count them, with status sent
\* exactly when some result is a success.
C21_OutcomesMatchResults ==
    /\ \A f \in Frames : OutcomesRecord(f.outcomes, f.results)
    /\ \A s \in finished :
          /\ OutcomesRecord(s.outcomes, s.results)
          /\ s.end = "completed" =>
                /\ Len(s.outcomes) = Len(s.results)
                /\ s.row.successful_sends = CountSuccess(s.results)
                /\ s.row.failed_sends
                       = Len(s.results) - CountSuccess(s.results)
                /\ s.row.status =
                       IF CountSuccess(s.results) > 0 THEN "sent" ELSE "failed"

\* a completed pass over three endpoints: two successes and one
\* 'invalid token', status sent with counters 2 and 1 and three outcomes
C21_Witness ==
    \E s \in finished :
        /\ s.end = "completed"
        /\ Len(s.audience) = 3
        /\ Len(s.outcomes) = 3
        /\ CountSuccess(s.results) = 2
        /\ \E k \in 1..3 : /\ s.outcomes[k].status = "failed"
                            /\ s.outcomes[k].error_message = "invalid token"
        /\ s.row.status = "sent"
        /\ s.row.successful_sends = 2
        /\ s.row.failed_sends = 1

\* ------------------------------------------------------------------ C22
\* the endpoints of the bulk calls of a pass, one after the other
Attempted(batches) ==
    IF batches = <<>> THEN <<>>
    ELSE LET RECURSIVE Cat(_)
             Cat(k) == IF k = 0 THEN <<>> ELSE Cat(k - 1) \o batches[k]
         IN Cat(Len(batches))

\* C22: a pass that returned after resolving a non-empty audience made a
\* bulk call for every batch of that audience, and every endpoint of every
\* batch has a result and an outcome of the pass: a failure of a whole batch
\* is a failed outcome for each of its endpoints and the later batches are
\* attempted all the same.
C22_EveryBatchAttempted ==
    \A s \in finished :
        s.audience # <<>> =>
            /\ Attempted(s.batches) = s.audience
            /\ Len(s.results) = Len(s.audience)
            /\ [k \in 1..Len(s.outcomes) |-> s.outcomes[k].device_token]
                   = s.audience

\* the same for the passes in which initialize_firebase did not raise
C22_UnlessInitRaises ==
    \A s \in finished :
        (s.audience # <<>> /\ s.end # "raised") =>
            /\ Attempted(s.batches) = s.audience
            /\ Len(s.results) = Len(s.audience)
            /\ [k \in 1..Len(s.outcomes) |-> s.outcomes[k].device_token]
                   = s.audience

\* ------------------------------------------------------------------ C23
\* what send_notification_to_token returns for token i of the bulk call of
\* thread t, with the class attributes and the gateway answer of that call
SingleFor(t, i) ==
    send_to_token_body(threads[t].fb, is_firebase_available(threads[t].fb),
                       threads[t].tokens[i],
                       [raises |-> threads[t].gw.raises,
                        answers |-> <<threads[t].gw.answers[i]>>])

BulkAgreesWithSingle(t) ==
    LET ret == threads[t].ret
        tokens == threads[t].tokens
        bulk == bulk_body(threads[t].fb, tokens, threads[t].gw) IN
    /\ ret.responses = bulk.responses
    /\ Len(ret.responses) = Len(tokens)
    /\ \A i \in 1..Len(tokens) :
           /\ ret.responses[i].token = tokens[i]
           /\ ret.responses[i].success = SingleFor(t, i).success
           /\ ret.responses[i].error = SingleFor(t, i).error
    /\ bulk.success_count + bulk.failure_count = Len(tokens)
    /\ bulk.success_count = CountSuccess(ret.responses)

\* C23: a bulk call that returned has one result per input token, in input
\* order, result i carrying token i and the success flag and error the single
\* send returns for token i in the same gateway state, configured or not;
\* success_count + failure_count is the number of tokens and success_count
\* the number of successful results.
C23_BulkIsLoopOverSingle ==
    \A t \in Threads :
        (/\ threads[t].ret.op = "send_notification_to_multiple_tokens"
         /\ ~threads[t].ret.raised)
            => BulkAgreesWithSingle(t)

\* the same for the calls made with a usable gateway client
C23_WhenConfigured ==
    \A t \in Threads :
        (/\ threads[t].ret.op = "send_notification_to_multiple_tokens"
         /\ ~threads[t].ret.raised
         /\ is_firebase_available(threads[t].fb))
            => BulkAgreesWithSingle(t)

\* ------------------------------------------------------------------ C24
LogsOf(r) == {k \in 1..Len(logs) : logs[k].notification = r}

\* the completed passes on request r
CompletedOn(r) ==
    {s \in finished : s.notification = r /\ s.end = "completed"}

\* the committed state once the action has returned
C24_Returned ==
    \A m \in Manuals :
        manual[m].pc = "done" =>
            \A s \in PassesOf(m) :
                LET n == notifications[s.notification] IN
                IF s.end = "completed"
                THEN /\ s.row.status \in Terminal
                     /\ s.row.total_recipients = Len(s.audience)
                     /\ s.row.successful_sends = SuccessesOf(s.outcomes)
                     /\ s.row.failed_sends
                            = Len(s.outcomes) - SuccessesOf(s.outcomes)
                     /\ Len(s.outcomes) = Len(s.audience)
                     /\ \A k \in 1..Len(s.outcomes) :
                            \E j \in LogsOf(s.notification) :
                                logs[j] = s.outcomes[k]
                     /\ CompletedOn(s.notification) = {s} =>
                            /\ n = s.row
                            /\ Cardinality(LogsOf(s.notification))
                                   = Len(s.outcomes)
                ELSE /\ s.start_status = "draft" =>
                            /\ s.row.status = "draft"
                            /\ s.row.total_recipients = 0
                            /\ s.row.successful_sends = 0
                            /\ s.row.failed_sends = 0
                            /\ ~s.row.sent_at
                     /\ CompletedOn(s.notification) = {} =>
                            /\ n.status = "draft"
                            /\ n.total_recipients = 0
                            /\ LogsOf(s.notification) = {}

\* the committed state while a pass runs and at the step that ends it
C24_Steps ==
    \A m \in Manuals :
        /\ (manual[m].pc # "idle"
               /\ manual'[m].error_count > manual[m].error_count) =>
               notifications' = notifications /\ logs' = logs
        /\ manual[m].pc \in {"resolve", "batch"} =>
              LET f == manual[m].f
                  r == f.notification.id IN
              IF manual'[m].pc \in {"resolve", "batch"}
              THEN /\ notifications'[r] = notifications[r]
                   /\ \A k \in (Len(logs) + 1)..Len(logs') :
                          logs'[k].notification # r
                   /\ manual'[m] # manual[m] =>
                          notifications' = notifications /\ logs' = logs
              ELSE \/ /\ manual'[m].sent_count = manual[m].sent_count + 1
                      /\ notifications'[r].status \in Terminal
                      /\ notifications'[r].total_recipients
                             = Len(f.target_tokens)
                      /\ Len(f.outcomes) = Len(f.target_tokens)
                      /\ logs' = logs \o f.outcomes
                   \/ /\ manual'[m].error_count = manual[m].error_count + 1
                      /\ notifications' = notifications
                      /\ logs' = logs

\* C24: a manual pass writes nothing to the committed rows while it runs;
\* the step that ends it either commits everything at once (terminal status,
\* total, final counters and one outcome per endpoint) or, when the pass
\* raised, commits nothing; once the action has returned, a request whose
\* pass completed is fully updated and a request whose pass raised is as it
\* was before the attempt: for a pass begun on a draft, draft with counters
\* 0, and with no outcome unless another pass on it completed.
C24_ManualAtomic == [](C24_Returned) /\ [][C24_Steps]_vars

\* an action that returned after a pass that had logged its first batch and
\* then raised: the request is draft and no outcome is stored
C24_Witness ==
    \E m \in Manuals :
        /\ manual[m].pc = "done"
        /\ \E s \in PassesOf(m) :
              /\ s.end = "raised"
              /\ s.outcomes # <<>>
              /\ notifications[s.notification].status = "draft"
              /\ logs = <<>>

\* ------------------------------------------------------------------ C25
\* the original statement: a pass of either kind that has made a gateway send
\* has the committed row at sending with total_recipients = audience size
C25_PersistedBeforeFirstSend ==
    \A f \in Frames :
        (f.pc = "batch" /\ f.sends # <<>>) =>
            /\ notifications[f.notification.id].status = "sending"
            /\ notifications[f.notification.id].total_recipients
                   = Len(f.target_tokens)

\* C25: a pass past the resolution of a non-empty audience, before and after
\* its first gateway send, has saved status sending and total_recipients =
\* audience size; the automatic pass has them committed, the manual pass has
\* them in its open transaction only, the committed row of a pass begun on a
\* draft being still the draft with total_recipients 0.
C25_TotalSavedBeforeFirstSend ==
    /\ \A r \in Reqs :
          auto[r].pc = "batch" =>
              /\ auto[r].target_tokens # <<>>
              /\ notifications[r].status = "sending"
              /\ notifications[r].total_recipients
                     = Len(auto[r].target_tokens)
    /\ \A m \in Manuals :
          manual[m].pc = "batch" =>
              LET f == manual[m].f IN
              /\ f.target_tokens # <<>>
              /\ f.notification.status = "sending"
              /\ f.notification.total_recipients = Len(f.target_tokens)
              /\ f.start_status = "draft" =>
                     /\ notifications[f.notification.id].status = "draft"
                     /\ notifications[f.notification.id].total_recipients = 0

\* an automatic pass after its first batch, with a batch still to send
C25_Witness ==
    \E r \in Reqs :
        /\ auto[r].pc = "batch"
        /\ auto[r].sends # <<>>
        /\ auto[r].i < Len(auto[r].target_tokens)
        /\ notifications[r].status = "sending"
        /\ notifications[r].total_recipients = Len(auto[r].target_tokens)

\* ------------------------------------------------------------------ C26
\* a step of a dispatch pass
PassStep ==
    \/ \E r \in Reqs :
          auto[r].pc \in {"scheduled", "resolve", "batch"} /\ auto'[r] # auto[r]
    \/ \E m \in Manuals :
          manual[m].pc \in {"loop", "resolve", "batch"}
              /\ manual'[m] # manual[m]

\* a step of a dispatch pass changes no endpoint
C26_EndpointsUntouched == [][PassStep => devices' = devices]_vars

\* C26: a step of a dispatch pass leaves every endpoint as it is; no step
\* changes or removes a stored outcome, and outcomes are added by steps of
\* a dispatch pass only.
C26_OutcomesOnlyGrow ==
    [][/\ PassStep => devices' = devices
       /\ Len(logs') >= Len(logs)
       /\ SubSeq(logs', 1, Len(logs)) = logs
       /\ logs' # logs => PassStep]_vars

\* ------------------------------------------------------------------ C27
\* what a pass that returned has left in the database: the columns of the
\* row and the outcomes (a manual pass that raised has stored none)
Persisted(s) ==
    [status |-> s.row.status,
     total_recipients |-> s.row.total_recipients,
     successful_sends |-> s.row.successful_sends,
     failed_sends |-> s.row.failed_sends,
     outcomes |-> IF s.kind = "manual" /\ s.end # "completed"
                  THEN <<>> ELSE s.outcomes]

\* what the automatic pipeline leaves for a draft, given the audience, the
\* results of the bulk calls and whether the adapter raised
Reference(s) ==
    IF s.audience = <<>>
    THEN [status |-> "failed", total_recipients |-> 0, successful_sends |-> 0,
          failed_sends |-> 0, outcomes |-> <<>>]
    ELSE IF s.end = "raised"
    THEN [status |-> "failed", total_recipients |-> Len(s.audience),
          successful_sends |-> 0, failed_sends |-> 0, outcomes |-> <<>>]
    ELSE [status |-> IF CountSuccess(s.results) > 0 THEN "sent" ELSE "failed",
          total_recipients |-> Len(s.audience),
          successful_sends |-> CountSuccess(s.results),
          failed_sends |-> Len(s.results) - CountSuccess(s.results),
          outcomes |-> [k \in 1..Len(s.results) |->
              [notification |-> s.notification,
               device_token |-> s.audience[k],
               status |-> IF s.results[k].success THEN "success"
                          ELSE "failed",
               error_message |-> IF s.results[k].success THEN None
                                 ELSE s.results[k].error]]]

\* every automatic pass on a draft leaves the reference
C27_AutomaticIsReference ==
    \A s \in finished :
        (s.start_status = "draft" /\ s.kind = "auto") =>
            Persisted(s) = Reference(s)

\* the two pipelines agree on the passes that ran to completion
C27_CompletedAgree ==
    \A s \in finished :
        (s.start_status = "draft" /\ s.end = "completed") =>
            Persisted(s) = Reference(s)

\* C27: a pass of either pipeline, started on a draft, leaves the status,
\* total_recipients, successful_sends, failed_sends and outcomes that the
\* automatic pipeline leaves for the same audience, the same results of the
\* gateway and the same exception of the adapter.
C27_PipelinesEquivalent ==
    \A s \in finished :
        s.start_status = "draft" => Persisted(s) = Reference(s)

\* ------------------------------------------------------------------ C28
\* the original statement: once the automatic trigger has returned, the
\* committed status is sent or failed
C28_NeverLeftUnfinished ==
    \A r \in Existing :
        auto[r].pc = "done" => notifications[r].status \in Terminal

\* once the trigger has returned the committed status is sent or failed,
\* unless the handler's own save raised and was swallowed
C28_Returned ==
    \A r \in Existing :
        auto[r].pc = "done" =>
            \E s \in finished :
                /\ s.kind = "auto"
                /\ s.notification = r
                /\ s.row = notifications[r]
                /\ s.end # "swallowed" => notifications[r].status \in Terminal
                /\ s.end = "swallowed" =>
                       notifications[r].status \in {"draft", "sending"}

\* C28: the dispatch scheduled for a request created with auto_send returns,
\* with no step of an operator, for every audience, gateway behaviour and
\* database outage; when it has returned the committed status is sent or
\* failed, except that it is still draft or sending when the exception
\* handler's own save raised.
C28_AutoTerminates ==
    /\ [](C28_Returned)
    /\ \A r \in Reqs : (auto[r].pc = "scheduled") ~> (auto[r].pc = "done")

\* a dispatch that returned after a pass that sent: status sent
C28_Witness ==
    \E r \in Existing :
        /\ notifications[r].auto_send
        /\ auto[r].pc = "done"
        /\ notifications[r].status = "sent"
        /\ \A m \in Manuals : manual[m].pc = "idle"

\* ------------------------------------------------------------------ C29
\* the stored outcomes of request r for endpoint d
OutcomesFor(r, d) == {j \in LogsOf(r) : logs[j].device_token = d}

\* C29: for every pass that returned, each endpoint messaging.send was
\* called for has exactly one stored outcome of that request, and a pass
\* that left the request in draft made no gateway send.
C29_SendsHaveOutcomes ==
    \A s \in finished :
        /\ \A k \in 1..Len(s.sends) :
               Cardinality(OutcomesFor(s.notification, s.sends[k])) = 1
        /\ s.row.status = "draft" => s.sends = <<>>

\* ------------------------------------------------------------------ C30
\* a broadcast to every platform
Broadcast == NewNotification(1, FALSE, TRUE, "all", {})
Eligible(table, id) ==
    /\ \E k \in 1..Len(get_target_tokens(table, Broadcast)) :
           get_target_tokens(table, Broadcast)[k].id = id
    /\ \E k \in 1..Len(admin_get_target_tokens(table, Broadcast)) :
           admin_get_target_tokens(table, Broadcast)[k].id = id

C30_Steps ==
    Answered("register_device_token", {HTTP_200_OK, HTTP_201_CREATED}) =>
        LET request == http_response'.request
            row == RowOf(devices', request.token) IN
        /\ row.is_active
        /\ Eligible(devices', row.id)
        /\ request.user_id = NoUser => row.user = NoUser
        /\ (Known(devices, request.token)
              /\ ~RowOf(devices, request.token).is_active) =>
               /\ ~Eligible(devices, row.id)
               /\ Len(devices') = Len(devices)
               /\ row.id = RowOf(devices, request.token).id
               /\ ~http_response'.created

\* C30: a registration that is accepted leaves the endpoint of its token
\* active and in the audience of a broadcast; when the token had been
\* unregistered, it is the same row that is active again and no row is
\* added; a registration without user_id leaves the endpoint without owner.
C30_RegisterReactivates == [][C30_Steps]_vars

\* an unregistered endpoint of user 1 registered again without user_id:
\* active, without owner, no second row
C30_Witness ==
    /\ http_response.view = "register_device_token"
    /\ http_response.http = HTTP_200_OK
    /\ ~http_response.was_active
    /\ http_response.was_user = 1
    /\ http_response.request.user_id = NoUser
    /\ Len(devices) = 1
    /\ devices[1].is_active
    /\ devices[1].user = NoUser

====
